---- MODULE Spec2Model ----
(***************************************************************************)
(* Reconciliation core of the Danawa / Naver / Google ETL pipeline:        *)
(* the model registry (car_model, car_model_image), the monthly sales      *)
(* facts (model_monthly_sales) and the monthly interest facts              *)
(* (model_monthly_interest), with the loaders that write them.             *)
(*                                                                         *)
(* Conventions.  A nullable value is a sequence of length <= 1: None is    *)
(* <<>> (SQL NULL / Python None) and Some(v) is <<v>>.  A text value is a  *)
(* sequence of one-character strings, so that strip() and slicing are      *)
(* computed and not assumed.  The relational store has the constraints the *)
(* statements of the loaders rely on: model_monthly_sales and              *)
(* model_monthly_interest are keyed by (model_id, month), which is what    *)
(* ON DUPLICATE KEY UPDATE acts on; car_model has its AUTO_INCREMENT       *)
(* model_id and nothing else, its loaders SELECT before they write.        *)
(***************************************************************************)
EXTENDS Integers, Sequences, FiniteSets, TLC

VARIABLES
    car_model,              \* table car_model: sequence of rows, model_id = position
    car_model_image,        \* table car_model_image: sequence of rows
    model_monthly_sales,    \* table model_monthly_sales: (model_id, month) -> row
    model_monthly_interest, \* table model_monthly_interest: (model_id, month) -> row
    stats,                  \* counters of the running loader
    last,                   \* log of the last row a loader processed
    nops,                   \* rows processed (interest, sales: in the run)
    phase,                  \* position of the (serial) loader
    input,                  \* the input of the running loader (file contents)
    idx,                    \* position of the loader in its input
    snap,                   \* stores remembered at the points the properties compare
    proc                    \* concurrent loaders: per process position and locals

vars == <<car_model, car_model_image, model_monthly_sales, model_monthly_interest,
          stats, last, nops, phase, input, idx, snap, proc>>

----------------------------------------------------------------------------
(* Nullable values *)

None == <<>>

Some(v) == <<v>>

IsNone(x) == x = <<>>

Val(x) == x[1]

----------------------------------------------------------------------------
(* Bounds *)

MaxOps == 3

----------------------------------------------------------------------------
(* Text *)

Whitespace == {" ", "\t"}

Digits == {"0", "1", "2", "3", "4", "5", "6", "7", "8", "9"}

DigitVal(c) ==
    CASE c = "0" -> 0 [] c = "1" -> 1 [] c = "2" -> 2 [] c = "3" -> 3
      [] c = "4" -> 4 [] c = "5" -> 5 [] c = "6" -> 6 [] c = "7" -> 7
      [] c = "8" -> 8 [] c = "9" -> 9

RECURSIVE lstrip(_)
lstrip(s) ==
    IF s # <<>> /\ Head(s) \in Whitespace THEN lstrip(Tail(s)) ELSE s

RECURSIVE rstrip(_)
rstrip(s) ==
    IF s # <<>> /\ s[Len(s)] \in Whitespace
    THEN rstrip(SubSeq(s, 1, Len(s) - 1))
    ELSE s

\* str.strip()
strip(s) == rstrip(lstrip(s))

RECURSIVE DigitsToInt(_)
DigitsToInt(s) ==
    IF s = <<>> THEN 0
    ELSE 10 * DigitsToInt(SubSeq(s, 1, Len(s) - 1)) + DigitVal(s[Len(s)])

AllDigits(s) == s # <<>> /\ \A i \in 1..Len(s) : s[i] \in Digits

\* int(s) of Python for a text s: surrounding whitespace and one sign are
\* accepted; anything else raises ValueError, which is None here.
int(s) ==
    LET t == strip(s) IN
    IF AllDigits(t) THEN Some(DigitsToInt(t))
    ELSE IF t # <<>> /\ Head(t) = "+" /\ AllDigits(Tail(t)) THEN Some(DigitsToInt(Tail(t)))
    ELSE IF t # <<>> /\ Head(t) = "-" /\ AllDigits(Tail(t)) THEN Some(0 - DigitsToInt(Tail(t)))
    ELSE None

----------------------------------------------------------------------------
(* Brands *)

Hyundai == <<"H">>   \* the brand_name of hyundai in car_model

Kia == <<"K">>       \* the brand_name of kia in car_model

BrandCodes == {"hyundai", "kia"}

\* BRAND_KR_MAP.get(code): None when the code is not a key
BRAND_KR_MAP(code) ==
    CASE code = "hyundai" -> Some(Hyundai)
      [] code = "kia" -> Some(Kia)
      [] OTHER -> None

----------------------------------------------------------------------------
(* Tables *)

\* fetchone() of a SELECT whose matching rows are S: None when there is no
\* row, otherwise one of them (the statements give no ORDER BY)
fetchone(S) == IF S = {} THEN {None} ELSE {Some(x) : x \in S}

\* SELECT model_id FROM car_model WHERE brand_name = :b AND model_name_kr = :n
SelectModelByName(cm, b, n) ==
    {i \in 1..Len(cm) : cm[i].brand_name = b /\ cm[i].model_name_kr = n}

\* the owner SELECT comparing the wrong column
SelectModelByDanawaId_WrongColumn(cm, d) ==
    {i \in 1..Len(cm) : cm[i].model_id = d /\ ~IsNone(cm[i].danawa_model_id)}

\* SELECT model_id FROM car_model WHERE danawa_model_id = :d
SelectModelByDanawaId(cm, d) ==
    {i \in 1..Len(cm) : cm[i].danawa_model_id = Some(d)}

\* a car_model row as upsert_car_model inserts it
NewCarModel(id, b, n) ==
    [model_id |-> id, brand_name |-> b, model_name_kr |-> n,
     danawa_model_id |-> None, danawa_model_url |-> None]

----------------------------------------------------------------------------
(* Candidate registration: load_car_model_from_candidates.py *)

MaxCands == 2

MaxRuns == 2

\* rows of car_model_candidates.csv: (brand_name, model_name_kr) as the file
\* holds them; extract_car_model_candidates.py writes the model name untrimmed
CandRows ==
    { [brand_name |-> Hyundai, model_name_kr |-> <<"a">>],
      [brand_name |-> Hyundai, model_name_kr |-> <<" ", "a">>],
      [brand_name |-> Kia,     model_name_kr |-> <<"a", " ">>],
      [brand_name |-> Hyundai, model_name_kr |-> <<"b">>] }

RECURSIVE SeqsUpTo(_, _)
SeqsUpTo(S, n) ==
    IF n = 0 THEN {<<>>}
    ELSE SeqsUpTo(S, n - 1) \cup
         {Append(q, x) : q \in {r \in SeqsUpTo(S, n - 1) : Len(r) = n - 1}, x \in S}

CandLists == SeqsUpTo(CandRows, MaxCands)

NaturalKeyUnique(cm) ==
    \A i, j \in 1..Len(cm) :
        (cm[i].brand_name = cm[j].brand_name /\ cm[i].model_name_kr = cm[j].model_name_kr)
            => i = j

\* the INSERT taking the place of the newest row
InsertCarModel_Replace(cm, brand_name, model_name_kr) ==
    IF cm = <<>> THEN <<NewCarModel(1, brand_name, model_name_kr)>>
    ELSE [cm EXCEPT ![Len(cm)] = NewCarModel(Len(cm), brand_name, model_name_kr)]

\* INSERT INTO car_model (danawa_model_id, brand_name, model_name_kr, danawa_model_url)
\* VALUES (NULL, :brand_name, :model_name_kr, NULL)
InsertCarModel(cm, brand_name, model_name_kr) ==
    Append(cm, NewCarModel(Len(cm) + 1, brand_name, model_name_kr))

\* one candidate inserted without the SELECT for an existing model
upsert_candidate_NoLookup(cm, row, existing) ==
    InsertCarModel(cm, strip(row.brand_name), strip(row.model_name_kr))

\* one candidate found registered is written again with its columns reset
upsert_candidate_Overwrite(cm, row, existing) ==
    IF ~IsNone(existing)
    THEN [cm EXCEPT ![Val(existing)] =
             NewCarModel(Val(existing), strip(row.brand_name), strip(row.model_name_kr))]
    ELSE InsertCarModel(cm, strip(row.brand_name), strip(row.model_name_kr))

\* one candidate registered under the name as the candidate file holds it
upsert_candidate_Untrimmed(cm, row, existing) ==
    IF ~IsNone(existing) THEN cm
    ELSE InsertCarModel(cm, row.brand_name, row.model_name_kr)

\* one candidate (the body of the loop of upsert_car_model), given the row
\* the SELECT for an existing model returned
upsert_candidate(cm, row, existing) ==
    IF ~IsNone(existing) THEN cm
    ELSE InsertCarModel(cm, strip(row.brand_name), strip(row.model_name_kr))

\* the rows the SELECT for an existing model can return
ExistingRows(cm, row) ==
    fetchone(SelectModelByName(cm, strip(row.brand_name), strip(row.model_name_kr)))

----------------------------------------------------------------------------
(* Metadata loader: load_danawa_meta_to_db.py *)

\* A detail URL is the sequence of the (key, value) pairs of its query string.
Url_Model1 == << <<"Work", <<"m">>>>, <<"Model", <<"1">>>> >>

Url_Model2 == << <<"Work", <<"m">>>>, <<"Model", <<"2">>>> >>

Url_model1 == << <<"model", <<"1">>>> >>

Url_ModelX == << <<"Model", <<"x">>>> >>

Url_NoModel == << <<"Work", <<"m">>>> >>

DetailUrls == {Url_Model1, Url_Model2, Url_model1, Url_ModelX}

ImageUrls == {"img1"}

\* parse_qs(query).get(key): the non-blank values of the key, in order
RECURSIVE qs_get(_, _)
qs_get(query, key) ==
    IF query = <<>> THEN <<>>
    ELSE LET kv == Head(query) IN
         IF kv[1] = key /\ kv[2] # <<>>
         THEN <<kv[2]>> \o qs_get(Tail(query), key)
         ELSE qs_get(Tail(query), key)

extract_model_id_from_url(url) ==
    IF IsNone(url) \/ Val(url) = <<>> THEN None
    ELSE LET vals == IF qs_get(Val(url), "Model") # <<>>
                     THEN qs_get(Val(url), "Model")
                     ELSE qs_get(Val(url), "model")
         IN IF vals = <<>> THEN None ELSE int(vals[1])

ModelNames == {<<"a">>}

\* the rows load_meta_csv returns: model_name is stripped and not empty,
\* brand_code is lower case, empty URLs are None
MetaRows ==
    [brand_code : BrandCodes \cup {"renault"},
     model_name : ModelNames \cup {<<"c">>},
     detail_url : {None} \cup {Some(u) : u \in DetailUrls},
     image_url  : {None} \cup {Some(u) : u \in ImageUrls}]

ZeroMetaStats ==
    [total_rows |-> 0, no_model_match |-> 0, car_model_updated |-> 0,
     image_inserted |-> 0, image_skipped_duplicate |-> 0, danawa_id_conflict |-> 0]

\* db_brand_name = BRAND_KR_MAP.get(mr.brand_code, brand_name_kr)
db_brand_name(brand_code, mr) ==
    IF IsNone(BRAND_KR_MAP(mr.brand_code))
    THEN Val(BRAND_KR_MAP(brand_code))
    ELSE Val(BRAND_KR_MAP(mr.brand_code))

\* the collision check without the owner test: the id is written whoever owns it
danawa_model_id_for_update_NoCheck(model_id, danawa_model_id, conflict) ==
    danawa_model_id

\* the collision check: danawa_model_id_for_update, given the extracted id
\* and the row the owner SELECT returned
danawa_model_id_for_update(model_id, danawa_model_id, conflict) ==
    IF IsNone(danawa_model_id) THEN None
    ELSE IF ~IsNone(conflict) /\ Val(conflict) # model_id THEN None
    ELSE danawa_model_id

\* the collision test with the comparison of the owner inverted
IsIdConflict_SameOwner(model_id, danawa_model_id, conflict) ==
    ~IsNone(danawa_model_id) /\ ~IsNone(conflict) /\ Val(conflict) = model_id

IsIdConflict(model_id, danawa_model_id, conflict) ==
    ~IsNone(danawa_model_id) /\ ~IsNone(conflict) /\ Val(conflict) # model_id

\* the UPDATE without its CASE expressions: both columns take the parameters
UpdateCarModel_NoCase(cm, model_id, id_for_update, url) ==
    [i \in 1..Len(cm) |->
        IF cm[i].model_id = model_id
        THEN [cm[i] EXCEPT !.danawa_model_id = id_for_update,
                           !.danawa_model_url = url]
        ELSE cm[i]]

\* UPDATE car_model SET danawa_model_id = CASE .. END, danawa_model_url = CASE .. END
\* WHERE model_id = :model_id
UpdateCarModel(cm, model_id, id_for_update, url) ==
    [i \in 1..Len(cm) |->
        IF cm[i].model_id = model_id
        THEN [cm[i] EXCEPT
                !.danawa_model_id = IF ~IsNone(id_for_update) THEN id_for_update ELSE @,
                !.danawa_model_url = IF ~IsNone(url) /\ Val(url) # <<>> THEN url ELSE @]
        ELSE cm[i]]

\* SELECT image_id FROM car_model_image WHERE model_id = :m AND image_url = :u
SelectImage(img, m, u) ==
    {i \in 1..Len(img) : img[i].model_id = m /\ img[i].image_url = u}

\* the image inserted without the SELECT for a stored (model_id, image_url)
InsertImage_NoLookup(img, model_id, image_url) ==
    IF IsNone(image_url) THEN img
    ELSE Append(img, [model_id |-> model_id, image_url |-> Val(image_url), is_primary |-> 1])

\* the car_model_image part of one metadata row
InsertImage(img, model_id, image_url) ==
    IF IsNone(image_url) \/ SelectImage(img, model_id, Val(image_url)) # {}
    THEN img
    ELSE Append(img, [model_id |-> model_id, image_url |-> Val(image_url), is_primary |-> 1])

ImageStats(st, img, model_id, image_url) ==
    IF IsNone(image_url) THEN st
    ELSE IF SelectImage(img, model_id, Val(image_url)) = {}
    THEN [st EXCEPT !.image_inserted = @ + 1]
    ELSE [st EXCEPT !.image_skipped_duplicate = @ + 1]

\* the loop body with the other collision policy: a colliding row is skipped
process_meta_row_SkipOnConflict(cm, img, st, mr, row, conflict) ==
    IF IsNone(row)
    THEN [car_model |-> cm, car_model_image |-> img,
          stats |-> [st EXCEPT !.total_rows = @ + 1, !.no_model_match = @ + 1]]
    ELSE LET model_id == Val(row)
             danawa_model_id == extract_model_id_from_url(mr.detail_url)
             st1 == [st EXCEPT !.total_rows = @ + 1]
         IN IF IsIdConflict(model_id, danawa_model_id, conflict)
            THEN [car_model |-> cm, car_model_image |-> img,
                  stats |-> [st1 EXCEPT !.danawa_id_conflict = @ + 1]]
            ELSE [car_model |-> UpdateCarModel(cm, model_id, danawa_model_id, mr.detail_url),
                  car_model_image |-> InsertImage(img, model_id, mr.image_url),
                  stats |-> ImageStats([st1 EXCEPT !.car_model_updated = @ + 1],
                                       img, model_id, mr.image_url)]

\* the loop body registering the model of a row that matches none
process_meta_row_CreateOnNoMatch(cm, img, st, mr, row, conflict) ==
    IF IsNone(row)
    THEN [car_model |-> Append(cm, NewCarModel(Len(cm) + 1,
                                   Val(BRAND_KR_MAP(mr.brand_code)), mr.model_name)),
          car_model_image |-> img,
          stats |-> [st EXCEPT !.total_rows = @ + 1, !.no_model_match = @ + 1]]
    ELSE LET model_id == Val(row)
             danawa_model_id == extract_model_id_from_url(mr.detail_url)
             st1 == [st EXCEPT !.total_rows = @ + 1]
             st2 == IF IsIdConflict(model_id, danawa_model_id, conflict)
                    THEN [st1 EXCEPT !.danawa_id_conflict = @ + 1]
                    ELSE st1
             st3 == [st2 EXCEPT !.car_model_updated = @ + 1]
         IN [car_model |-> UpdateCarModel(cm, model_id,
                               danawa_model_id_for_update(model_id, danawa_model_id, conflict),
                               mr.detail_url),
             car_model_image |-> InsertImage(img, model_id, mr.image_url),
             stats |-> ImageStats(st3, img, model_id, mr.image_url)]

\* One metadata row (the body of the loop over meta_rows), given the rows the
\* two SELECTs on car_model returned
process_meta_row(cm, img, st, mr, row, conflict) ==
    IF IsNone(row)
    THEN [car_model |-> cm, car_model_image |-> img,
          stats |-> [st EXCEPT !.total_rows = @ + 1, !.no_model_match = @ + 1]]
    ELSE LET model_id == Val(row)
             danawa_model_id == extract_model_id_from_url(mr.detail_url)
             st1 == [st EXCEPT !.total_rows = @ + 1]
             st2 == IF IsIdConflict(model_id, danawa_model_id, conflict)
                    THEN [st1 EXCEPT !.danawa_id_conflict = @ + 1]
                    ELSE st1
             st3 == [st2 EXCEPT !.car_model_updated = @ + 1]
         IN [car_model |-> UpdateCarModel(cm, model_id,
                               danawa_model_id_for_update(model_id, danawa_model_id, conflict),
                               mr.detail_url),
             car_model_image |-> InsertImage(img, model_id, mr.image_url),
             stats |-> ImageStats(st3, img, model_id, mr.image_url)]

\* the rows the owner SELECT can return for a metadata row
ConflictRows(cm, mr) ==
    IF IsNone(extract_model_id_from_url(mr.detail_url)) THEN {None}
    ELSE fetchone(SelectModelByDanawaId(cm, Val(extract_model_id_from_url(mr.detail_url))))

\* the registry after upsert_car_model has registered two models
RegisteredModels ==
    << NewCarModel(1, Hyundai, <<"a">>),
       NewCarModel(2, Kia, <<"a">>) >>

NoLast ==
    [op |-> "none", model_id |-> None, danawa_model_id |-> None,
     first_writer |-> FALSE, after_first_writer |-> FALSE]

\* the log of a metadata row: the entity it matched, the id it carried,
\* whether it took an id nobody owned, and whether it follows such a row of
\* another entity with the same id
MetaLog(cm, mr, row) ==
    LET d == extract_model_id_from_url(mr.detail_url)
        free == ~IsNone(row) /\ ~IsNone(d) /\ SelectModelByDanawaId(cm, Val(d)) = {}
    IN [op |-> "meta", model_id |-> row, danawa_model_id |-> d,
        first_writer |-> free,
        after_first_writer |->
            /\ last.op = "meta" /\ last.first_writer
            /\ ~IsNone(row) /\ row # last.model_id
            /\ d = last.danawa_model_id]

\* run_loader: with engine.begin() as conn, fresh counters
StartMetaRun ==
    /\ phase = "idle"
    /\ phase' = "meta"
    /\ stats' = ZeroMetaStats
    /\ UNCHANGED <<car_model, car_model_image, model_monthly_sales,
                   model_monthly_interest, last, nops, input, idx, snap, proc>>

\* process_meta_for_brand(conn, run_id, brand_code, stats): one row of one
\* metadata file of the brand directory
ProcessMetaRow(brand_code, mr) ==
    /\ phase = "meta"
    /\ nops < MaxOps
    /\ \E row \in fetchone(SelectModelByName(car_model, db_brand_name(brand_code, mr), mr.model_name)),
          conflict \in ConflictRows(car_model, mr) :
          LET r == process_meta_row(car_model, car_model_image, stats, mr, row, conflict) IN
          /\ car_model' = r.car_model
          /\ car_model_image' = r.car_model_image
          /\ stats' = r.stats
          /\ last' = MetaLog(car_model, mr, row)
    /\ nops' = nops + 1
    /\ UNCHANGED <<model_monthly_sales, model_monthly_interest, phase, input, idx, snap, proc>>

\* the end of the with block of run_loader: commit
EndMetaRun ==
    /\ phase = "meta"
    /\ phase' = "idle"
    /\ UNCHANGED <<car_model, car_model_image, model_monthly_sales,
                   model_monthly_interest, stats, last, nops, input, idx, snap, proc>>

InitMeta ==
    /\ car_model = RegisteredModels
    /\ car_model_image = <<>>
    /\ model_monthly_sales = <<>>
    /\ model_monthly_interest = <<>>
    /\ stats = ZeroMetaStats
    /\ last = NoLast
    /\ nops = 0
    /\ phase = "idle"
    /\ input = <<>>
    /\ idx = 0
    /\ snap = <<>>
    /\ proc = <<>>

NextMeta ==
    \/ StartMetaRun
    \/ \E brand_code \in BrandCodes, mr \in MetaRows : ProcessMetaRow(brand_code, mr)
    \/ EndMetaRun

\* serialized metadata runs over a registered registry
SpecMeta == InitMeta /\ [][NextMeta]_vars

UniqueDanawaId(cm) ==
    \A i, j \in 1..Len(cm) :
        (i # j /\ ~IsNone(cm[i].danawa_model_id)
               /\ cm[i].danawa_model_id = cm[j].danawa_model_id) => FALSE

\* C1: first writer wins. When a metadata row gives entity X an id E that no
\* entity owned, and the next metadata row carries E for another entity Y, then
\* that row leaves Y's danawa_model_id as it was, adds exactly one to
\* danawa_id_conflict, and X still holds E.
C1_FirstWriterWins ==
    [][ (/\ last.op = "meta" /\ last.first_writer
         /\ nops' = nops + 1
         /\ last'.op = "meta" /\ ~IsNone(last'.model_id)
         /\ last'.model_id # last.model_id
         /\ last'.danawa_model_id = last.danawa_model_id)
        => (/\ car_model'[Val(last'.model_id)].danawa_model_id
                  = car_model[Val(last'.model_id)].danawa_model_id
            /\ car_model'[Val(last'.model_id)].danawa_model_id # last.danawa_model_id
            /\ stats'.danawa_id_conflict = stats.danawa_id_conflict + 1
            /\ car_model'[Val(last.model_id)].danawa_model_id = last.danawa_model_id) ]_vars

\* a second writer of an id has just been processed: it holds no id, the
\* collision is counted, and another entity holds the id
C1_Witness ==
    /\ last.op = "meta" /\ last.after_first_writer
    /\ IsNone(car_model[Val(last.model_id)].danawa_model_id)
    /\ stats.danawa_id_conflict >= 1
    /\ \E i \in 1..Len(car_model) :
          i # Val(last.model_id) /\ car_model[i].danawa_model_id = last.danawa_model_id

\* C2: serialized enrichment keeps danawa_model_id unique: no two car_model
\* rows hold the same non-null danawa_model_id.
C2_ExternalIdUnique == UniqueDanawaId(car_model)

\* two entities hold different ids and a third has been refused one of them
C2_Witness ==
    /\ \E i, j \in 1..Len(car_model) :
          /\ i # j
          /\ ~IsNone(car_model[i].danawa_model_id)
          /\ ~IsNone(car_model[j].danawa_model_id)
    /\ stats.danawa_id_conflict >= 1

----------------------------------------------------------------------------
(* Concurrent metadata runs.  Each run_loader holds one transaction       *)
(* (engine.begin()): its statements act on its own view of the tables,     *)
(* which a SELECT may refresh from the committed tables (the isolation     *)
(* level is not set by the code), and its writes reach the committed       *)
(* tables when the with block ends.                                        *)

Procs == {1, 2}

MaxConcRows == 2

\* the rows of the concurrent runs
ConcMetaRows ==
    [brand_code : BrandCodes,
     model_name : ModelNames,
     detail_url : {Some(Url_Model1), Some(Url_model1), Some(Url_Model2)},
     image_url  : {None} \cup {Some(u) : u \in ImageUrls}]

NoMetaRow ==
    [brand_code |-> "hyundai", model_name |-> <<>>, detail_url |-> None, image_url |-> None]

\* the writes of a transaction applied, in order, to the tables
RECURSIVE ApplyWrites(_, _)
ApplyWrites(tables, writes) ==
    IF writes = <<>> THEN tables
    ELSE LET w == Head(writes) IN
         ApplyWrites(
            CASE w.kind = "update" ->
                   [tables EXCEPT !.car_model = UpdateCarModel(@, w.model_id, w.id, w.url)]
              [] w.kind = "image" ->
                   [tables EXCEPT !.car_model_image =
                       Append(@, [model_id |-> w.model_id, image_url |-> w.url, is_primary |-> 1])]
              [] w.kind = "insert" ->
                   [tables EXCEPT !.car_model =
                       Append(@, NewCarModel(Len(@) + 1, w.brand_name, w.model_name_kr))],
            Tail(writes))

Committed == [car_model |-> car_model, car_model_image |-> car_model_image]

\* the views a SELECT of process p can read: the one it holds, or the
\* committed tables with its own writes
Views(p) == {proc[p].view, ApplyWrites(Committed, proc[p].writes)}

InTransaction(p) == proc[p].pc \notin {"idle", "done"}

IdleProc ==
    [pc |-> "idle", view |-> [car_model |-> <<>>, car_model_image |-> <<>>],
     writes |-> <<>>, brand_code |-> "hyundai", mr |-> NoMetaRow,
     model_id |-> 0, id_for_update |-> None, stats |-> ZeroMetaStats,
     rows_done |-> 0, overlapped |-> FALSE, other_updated |-> FALSE]

\* true when another process has executed an UPDATE in the transaction it
\* has open or has committed
OtherHasUpdated(p) ==
    \E q \in Procs \ {p} :
        \/ proc[q].pc = "done" /\ proc[q].stats.car_model_updated > 0
        \/ \E i \in 1..Len(proc[q].writes) : proc[q].writes[i].kind = "update"

ConcUnchanged == <<model_monthly_sales, model_monthly_interest, stats, last,
                   nops, phase, input, idx, snap>>

\* run_loader: engine.begin(), stats = {...}
ConcBegin(p) ==
    /\ proc[p].pc = "idle"
    /\ proc' = [proc EXCEPT ![p].pc = "next",
                            ![p].view = Committed,
                            ![p].stats = ZeroMetaStats,
                            ![p].overlapped = \E q \in Procs \ {p} : InTransaction(q)]
    /\ UNCHANGED <<car_model, car_model_image>>
    /\ UNCHANGED ConcUnchanged

RECURSIVE SumRowsDone(_)
SumRowsDone(P) ==
    IF P = {} THEN 0
    ELSE LET p == CHOOSE q \in P : TRUE IN proc[p].rows_done + SumRowsDone(P \ {p})

\* for mr in meta_rows: stats["total_rows"] += 1; the row is one of the
\* brand directory of its own brand
ConcNextRow(p, mr) ==
    /\ proc[p].pc = "next"
    /\ SumRowsDone(Procs) < MaxConcRows
    /\ proc' = [proc EXCEPT ![p].pc = "select_model",
                            ![p].brand_code = mr.brand_code,
                            ![p].mr = mr,
                            ![p].rows_done = @ + 1,
                            ![p].stats.total_rows = @ + 1]
    /\ UNCHANGED <<car_model, car_model_image>>
    /\ UNCHANGED ConcUnchanged

\* SELECT .. FROM car_model WHERE brand_name = .. AND model_name_kr = ..
ConcSelectModel(p) ==
    /\ proc[p].pc = "select_model"
    /\ \E v \in Views(p) :
       \E row \in fetchone(SelectModelByName(v.car_model,
                      db_brand_name(proc[p].brand_code, proc[p].mr), proc[p].mr.model_name)) :
          IF IsNone(row)
          THEN proc' = [proc EXCEPT ![p].pc = "next", ![p].view = v,
                                    ![p].stats.no_model_match = @ + 1]
          ELSE proc' = [proc EXCEPT
                  ![p].pc = IF IsNone(extract_model_id_from_url(proc[p].mr.detail_url))
                            THEN "update" ELSE "select_conflict",
                  ![p].view = v,
                  ![p].model_id = Val(row),
                  ![p].id_for_update = None]
    /\ UNCHANGED <<car_model, car_model_image>>
    /\ UNCHANGED ConcUnchanged

\* SELECT model_id FROM car_model WHERE danawa_model_id = .. LIMIT 1, and the
\* test of its result
ConcSelectConflict(p) ==
    /\ proc[p].pc = "select_conflict"
    /\ LET d == extract_model_id_from_url(proc[p].mr.detail_url) IN
       \E v \in Views(p) :
       \E conflict \in fetchone(SelectModelByDanawaId(v.car_model, Val(d))) :
          proc' = [proc EXCEPT
              ![p].pc = "update",
              ![p].view = v,
              ![p].id_for_update = danawa_model_id_for_update(proc[p].model_id, d, conflict),
              ![p].stats.danawa_id_conflict =
                  IF IsIdConflict(proc[p].model_id, d, conflict) THEN @ + 1 ELSE @,
              ![p].other_updated = OtherHasUpdated(p)]
    /\ UNCHANGED <<car_model, car_model_image>>
    /\ UNCHANGED ConcUnchanged

\* UPDATE car_model SET .. WHERE model_id = ..
ConcUpdate(p) ==
    /\ proc[p].pc = "update"
    /\ proc' = [proc EXCEPT
          ![p].pc = IF IsNone(proc[p].mr.image_url) THEN "next" ELSE "select_image",
          ![p].view.car_model = UpdateCarModel(@, proc[p].model_id,
                                    proc[p].id_for_update, proc[p].mr.detail_url),
          ![p].writes = Append(@, [kind |-> "update", model_id |-> proc[p].model_id,
                                   id |-> proc[p].id_for_update,
                                   url |-> proc[p].mr.detail_url]),
          ![p].stats.car_model_updated = @ + 1]
    /\ UNCHANGED <<car_model, car_model_image>>
    /\ UNCHANGED ConcUnchanged

\* SELECT image_id FROM car_model_image .. and the INSERT that follows it
ConcImage(p) ==
    /\ proc[p].pc = "select_image"
    /\ \E v \in Views(p) :
          IF SelectImage(v.car_model_image, proc[p].model_id, Val(proc[p].mr.image_url)) = {}
          THEN proc' = [proc EXCEPT
                  ![p].pc = "next",
                  ![p].view = [v EXCEPT !.car_model_image =
                                  InsertImage(@, proc[p].model_id, proc[p].mr.image_url)],
                  ![p].writes = Append(@, [kind |-> "image", model_id |-> proc[p].model_id,
                                           id |-> None, url |-> Val(proc[p].mr.image_url)]),
                  ![p].stats.image_inserted = @ + 1]
          ELSE proc' = [proc EXCEPT
                  ![p].pc = "next", ![p].view = v,
                  ![p].stats.image_skipped_duplicate = @ + 1]
    /\ UNCHANGED <<car_model, car_model_image>>
    /\ UNCHANGED ConcUnchanged

\* the end of the with block: commit
ConcCommit(p) ==
    /\ proc[p].pc = "next"
    /\ LET t == ApplyWrites(Committed, proc[p].writes) IN
       /\ car_model' = t.car_model
       /\ car_model_image' = t.car_model_image
    /\ proc' = [proc EXCEPT ![p].pc = "done", ![p].writes = <<>>]
    /\ UNCHANGED ConcUnchanged

InitMetaConc ==
    /\ car_model = RegisteredModels
    /\ car_model_image = <<>>
    /\ model_monthly_sales = <<>>
    /\ model_monthly_interest = <<>>
    /\ stats = ZeroMetaStats
    /\ last = NoLast
    /\ nops = 0
    /\ phase = "idle"
    /\ input = <<>>
    /\ idx = 0
    /\ snap = <<>>
    /\ proc = [p \in Procs |-> IdleProc]

NextMetaConc ==
    \E p \in Procs :
        \/ ConcBegin(p)
        \/ \E mr \in ConcMetaRows : ConcNextRow(p, mr)
        \/ ConcSelectModel(p)
        \/ ConcSelectConflict(p)
        \/ ConcUpdate(p)
        \/ ConcImage(p)
        \/ ConcCommit(p)

\* two metadata runs by two processes, their statements interleaved
SpecMetaConc == InitMetaConc /\ [][NextMetaConc]_vars

\* no run began while another run's transaction was open
Serialized == \A p \in Procs : ~proc[p].overlapped

\* C3: the collision detection is check-then-act. When the runs are
\* serialized (no run begins while another is in its transaction) no two
\* entities hold the same danawa_model_id; when they interleave so that both
\* owner lookups precede either UPDATE, a state where two entities hold the
\* same id is reached (C3_Witness).
C3_SerializedRunsKeepIdUnique == Serialized => UniqueDanawaId(car_model)

\* both runs are committed, each looked the owner up before the other had
\* updated, and two entities hold the same danawa_model_id
C3_Witness ==
    /\ \A p \in Procs : proc[p].pc = "done" /\ ~proc[p].other_updated
                        /\ proc[p].stats.car_model_updated = 1
    /\ proc[1].model_id # proc[2].model_id
    /\ ~IsNone(car_model[1].danawa_model_id)
    /\ car_model[1].danawa_model_id = car_model[2].danawa_model_id

----------------------------------------------------------------------------
(* Serial registration runs *)

\* RegisteredModels after a metadata run has enriched its first model
EnrichedModels ==
    process_meta_row(RegisteredModels, <<>>, ZeroMetaStats,
        [brand_code |-> "hyundai", model_name |-> <<"a">>,
         detail_url |-> Some(Url_Model1), image_url |-> None],
        Some(1), None).car_model

InitRegistries == {<<>>, RegisteredModels, EnrichedModels}

\* upsert_car_model: engine.begin() and the opening of the candidate file
StartRegister(cands) ==
    /\ phase = "idle"
    /\ snap.runs < MaxRuns
    /\ phase' = "register"
    /\ input' = cands
    /\ idx' = 1
    /\ snap' = [snap EXCEPT !.pre = car_model,
                            !.rerun = (snap.runs > 0 /\ cands = input),
                            !.runs = @ + 1]
    /\ UNCHANGED <<car_model, car_model_image, model_monthly_sales,
                   model_monthly_interest, stats, last, nops, proc>>

\* upsert_car_model: one candidate row
RegisterRow ==
    /\ phase = "register"
    /\ idx <= Len(input)
    /\ \E existing \in ExistingRows(car_model, input[idx]) :
          car_model' = upsert_candidate(car_model, input[idx], existing)
    /\ idx' = idx + 1
    /\ nops' = nops + 1
    /\ UNCHANGED <<car_model_image, model_monthly_sales, model_monthly_interest,
                   stats, last, phase, input, snap, proc>>

\* upsert_car_model: the end of the with block, commit
EndRegister ==
    /\ phase = "register"
    /\ idx > Len(input)
    /\ phase' = "idle"
    /\ UNCHANGED <<car_model, car_model_image, model_monthly_sales,
                   model_monthly_interest, stats, last, nops, input, idx, snap, proc>>

InitRegister ==
    /\ car_model \in InitRegistries
    /\ car_model_image = <<>>
    /\ model_monthly_sales = <<>>
    /\ model_monthly_interest = <<>>
    /\ stats = ZeroMetaStats
    /\ last = NoLast
    /\ nops = 0
    /\ phase = "idle"
    /\ input = <<>>
    /\ idx = 0
    /\ snap = [init |-> car_model, pre |-> car_model, rerun |-> FALSE, runs |-> 0]
    /\ proc = <<>>

NextRegister ==
    \/ \E cands \in CandLists : StartRegister(cands)
    \/ RegisterRow
    \/ EndRegister

\* registration runs executed one after another
SpecRegister == InitRegister /\ [][NextRegister]_vars

\* every row of registry a is in registry b, in the same place, unchanged
Preserved(a, b) ==
    /\ Len(a) <= Len(b)
    /\ \A i \in 1..Len(a) : b[i] = a[i]

\* C4: registration is idempotent and non-destructive. During and after a run
\* every row that was registered when the run began is unchanged (model_id,
\* brand_name, model_name_kr, danawa_model_id, danawa_model_url), and a run
\* with the candidates of the run before it leaves car_model as it was.
C4_RegisterIdempotentNonDestructive ==
    /\ Preserved(snap.pre, car_model)
    /\ Preserved(snap.init, car_model)
    /\ snap.rerun => car_model = snap.pre

\* a rerun of the same candidates has ended; the first run had added a model
\* and the registry holds an enriched model
C4_Witness ==
    /\ snap.rerun /\ phase = "idle" /\ input # <<>>
    /\ Len(car_model) > Len(snap.init)
    /\ \E i \in 1..Len(car_model) : ~IsNone(car_model[i].danawa_model_id)

\* C5: after any sequence of registration runs executed one after another,
\* car_model has at most one row per (brand_name, model_name_kr).
C5_NaturalKeyUnique == NaturalKeyUnique(car_model)

\* a run has processed two candidates that are equal after trimming and
\* differ before it, and their model is registered once
C5_Witness ==
    /\ phase = "idle" /\ Len(input) = 2
    /\ input[1] # input[2]
    /\ strip(input[1].model_name_kr) = strip(input[2].model_name_kr)
    /\ input[1].brand_name = input[2].brand_name
    /\ Cardinality(SelectModelByName(car_model, strip(input[1].brand_name),
                                     strip(input[1].model_name_kr))) = 1
    /\ Len(car_model) > Len(snap.init)

----------------------------------------------------------------------------
(* Concurrent registration runs: two upsert_car_model, each in its own     *)
(* transaction, their statements interleaved                               *)

MaxConcCands == 1

IdleRegProc ==
    [pc |-> "idle", view |-> [car_model |-> <<>>, car_model_image |-> <<>>],
     writes |-> <<>>, cands |-> <<>>, idx |-> 0, existing |-> None,
     overlapped |-> FALSE]

\* upsert_car_model: engine.begin() and the opening of the candidate file
RegBegin(p, cands) ==
    /\ proc[p].pc = "idle"
    /\ proc' = [proc EXCEPT ![p].pc = "select",
                            ![p].view = Committed,
                            ![p].cands = cands,
                            ![p].idx = 1,
                            ![p].overlapped = \E q \in Procs \ {p} : InTransaction(q)]
    /\ UNCHANGED <<car_model, car_model_image>>
    /\ UNCHANGED ConcUnchanged

\* SELECT model_id FROM car_model WHERE brand_name = .. AND model_name_kr = ..
RegSelect(p) ==
    /\ proc[p].pc = "select"
    /\ proc[p].idx <= Len(proc[p].cands)
    /\ \E v \in Views(p) :
       \E existing \in ExistingRows(v.car_model, proc[p].cands[proc[p].idx]) :
          proc' = [proc EXCEPT ![p].pc = "insert", ![p].view = v, ![p].existing = existing]
    /\ UNCHANGED <<car_model, car_model_image>>
    /\ UNCHANGED ConcUnchanged

\* if existing: continue; otherwise INSERT INTO car_model ..
RegInsert(p) ==
    /\ proc[p].pc = "insert"
    /\ LET row == proc[p].cands[proc[p].idx] IN
       proc' = [proc EXCEPT
           ![p].pc = "select",
           ![p].idx = @ + 1,
           ![p].view.car_model = upsert_candidate(@, row, proc[p].existing),
           ![p].writes = IF ~IsNone(proc[p].existing) THEN @
                         ELSE Append(@, [kind |-> "insert",
                                         brand_name |-> strip(row.brand_name),
                                         model_name_kr |-> strip(row.model_name_kr)])]
    /\ UNCHANGED <<car_model, car_model_image>>
    /\ UNCHANGED ConcUnchanged

\* the end of the with block: commit
RegCommit(p) ==
    /\ proc[p].pc = "select"
    /\ proc[p].idx > Len(proc[p].cands)
    /\ car_model' = ApplyWrites(Committed, proc[p].writes).car_model
    /\ proc' = [proc EXCEPT ![p].pc = "done", ![p].writes = <<>>]
    /\ UNCHANGED car_model_image
    /\ UNCHANGED ConcUnchanged

InitRegisterConc ==
    /\ car_model \in InitRegistries
    /\ car_model_image = <<>>
    /\ model_monthly_sales = <<>>
    /\ model_monthly_interest = <<>>
    /\ stats = ZeroMetaStats
    /\ last = NoLast
    /\ nops = 0
    /\ phase = "idle"
    /\ input = <<>>
    /\ idx = 0
    /\ snap = <<>>
    /\ proc = [p \in Procs |-> IdleRegProc]

NextRegisterConc ==
    \E p \in Procs :
        \/ \E cands \in SeqsUpTo(CandRows, MaxConcCands) : RegBegin(p, cands)
        \/ RegSelect(p)
        \/ RegInsert(p)
        \/ RegCommit(p)

\* two registration runs by two processes, their statements interleaved
SpecRegisterConc == InitRegisterConc /\ [][NextRegisterConc]_vars

\* C6: concurrent registration does not corrupt the registry: with two runs
\* holding the same candidate and their SELECT and INSERT steps interleaved,
\* car_model never has two rows with the same (brand_name, model_name_kr).
C6_ConcurrentRegistrationKeepsKeyUnique == NaturalKeyUnique(car_model)

----------------------------------------------------------------------------
(* Interest loaders: load_naver_interest.py, load_google_trend.py          *)
(*                                                                         *)
(* A row of model_monthly_interest has the measurement columns the two     *)
(* INSERT statements name: naver_index, google_index, danawa_popularity    *)
(* (load_naver_interest.py) and naver_search_index, google_trend_index,    *)
(* danawa_pop_rank, danawa_pop_rank_size (load_google_trend.py).  A column *)
(* an INSERT does not name takes its default, NULL.  created_at = NOW() is *)
(* written by the INSERT branch only and is a wall-clock value; it is not  *)
(* part of the row here.                                                   *)

D_2024_01_01 == <<"2", "0", "2", "4", "-", "0", "1", "-", "0", "1">>

D_2024_01_15 == <<"2", "0", "2", "4", "-", "0", "1", "-", "1", "5">>

D_2024_02_01 == <<"2", "0", "2", "4", "-", "0", "2", "-", "0", "1">>

D_2024 == <<"2", "0", "2", "4">>

\* month_from_date: None stands for the ValueError
month_from_date(date_str) ==
    IF Len(date_str) >= 7
    THEN Some(SubSeq(date_str, 1, 7) \o <<"-", "0", "1">>)
    ELSE None

RECURSIVE GCD(_, _)
GCD(a, b) == IF b = 0 THEN a ELSE GCD(b, a % b)

\* sum(ratios) / len(ratios), as a reduced fraction
Fraction(n, d) == [num |-> n \div GCD(n, d), den |-> d \div GCD(n, d)]

RECURSIVE SumSeq(_)
SumSeq(q) == IF q = <<>> THEN 0 ELSE Head(q) + SumSeq(Tail(q))

\* bucket[(model_id, month)].append(ratio) on a dict kept as the sequence of
\* its items in insertion order
BucketAppend(bucket, key, ratio) ==
    IF \E i \in 1..Len(bucket) : bucket[i].key = key
    THEN [i \in 1..Len(bucket) |->
             IF bucket[i].key = key
             THEN [bucket[i] EXCEPT !.ratios = Append(@, ratio)]
             ELSE bucket[i]]
    ELSE Append(bucket, [key |-> key, ratios |-> <<ratio>>])

\* the loop of load_raw_csv over the rows of the file; failed stands for the
\* ValueError of month_from_date, which ends the loader
RECURSIVE ReadNaverRows(_, _)
ReadNaverRows(rows, bucket) ==
    IF rows = <<>> THEN [failed |-> FALSE, bucket |-> bucket]
    ELSE LET row == Head(rows)
             model_id == int(row.model_id)
             date_str == strip(row.date)
             ratio_str == strip(row.ratio)
         IN IF IsNone(model_id) THEN ReadNaverRows(Tail(rows), bucket)
            ELSE IF date_str = <<>> \/ ratio_str = <<>> THEN ReadNaverRows(Tail(rows), bucket)
            ELSE IF IsNone(month_from_date(date_str)) THEN [failed |-> TRUE, bucket |-> <<>>]
            ELSE IF IsNone(int(ratio_str)) THEN ReadNaverRows(Tail(rows), bucket)
            ELSE ReadNaverRows(Tail(rows),
                     BucketAppend(bucket, <<Val(model_id), Val(month_from_date(date_str))>>,
                                  Val(int(ratio_str))))

\* load_raw_csv: the InterestPoint list, one point per (model_id, month)
load_raw_csv(rows) ==
    LET r == ReadNaverRows(rows, <<>>) IN
    [failed |-> r.failed,
     points |-> [i \in 1..Len(r.bucket) |->
                    [model_id |-> r.bucket[i].key[1], month |-> r.bucket[i].key[2],
                     naver_index |-> Fraction(SumSeq(r.bucket[i].ratios),
                                              Len(r.bucket[i].ratios))]]]

\* the INSERT branch of the naver statement
NewNaverRow(v) ==
    [naver_index |-> Some(v), google_index |-> None, danawa_popularity |-> None,
     naver_search_index |-> None, google_trend_index |-> None,
     danawa_pop_rank |-> None, danawa_pop_rank_size |-> None]

\* the INSERT branch of the google statement
NewGoogleRow(v) ==
    [naver_index |-> None, google_index |-> None, danawa_popularity |-> None,
     naver_search_index |-> None, google_trend_index |-> Some(v),
     danawa_pop_rank |-> None, danawa_pop_rank_size |-> None]

Put(t, k, row) == [x \in DOMAIN t \cup {k} |-> IF x = k THEN row ELSE t[x]]

\* the naver statement as REPLACE INTO: the row is written whole
upsert_naver_Replace(t, p) ==
    Put(t, <<p.model_id, p.month>>, NewNaverRow(p.naver_index))

\* INSERT INTO model_monthly_interest .. ON DUPLICATE KEY UPDATE
\* naver_index = VALUES(naver_index), for one InterestPoint
upsert_naver(t, p) ==
    LET k == <<p.model_id, p.month>> IN
    IF k \in DOMAIN t
    THEN [t EXCEPT ![k].naver_index = Some(p.naver_index)]
    ELSE Put(t, k, NewNaverRow(p.naver_index))

\* the google statement as REPLACE INTO: the row is written whole
upsert_google_Replace(t, g) ==
    Put(t, <<g.model_id, g.month>>, NewGoogleRow(g.google_trend_index))

\* the google statement adding to the stored value
upsert_google_Accumulate(t, g) ==
    LET k == <<g.model_id, g.month>> IN
    IF k \in DOMAIN t
    THEN [t EXCEPT ![k].google_trend_index =
             IF IsNone(@) THEN Some(g.google_trend_index)
             ELSE Some(Val(@) + g.google_trend_index)]
    ELSE Put(t, k, NewGoogleRow(g.google_trend_index))

\* INSERT INTO model_monthly_interest .. ON DUPLICATE KEY UPDATE
\* google_trend_index = VALUES(google_trend_index), for one parsed row
upsert_google(t, g) ==
    LET k == <<g.model_id, g.month>> IN
    IF k \in DOMAIN t
    THEN [t EXCEPT ![k].google_trend_index = Some(g.google_trend_index)]
    ELSE Put(t, k, NewGoogleRow(g.google_trend_index))

\* the try block of load_google_trend: the parsed rows of the file, the rows
\* int() rejects skipped
RECURSIVE ReadGoogleRows(_)
ReadGoogleRows(rows) ==
    IF rows = <<>> THEN <<>>
    ELSE LET row == Head(rows)
             model_id == int(row.model_id)
             google_trend_index == int(row.google_trend_index)
         IN IF IsNone(model_id) \/ IsNone(google_trend_index)
            THEN ReadGoogleRows(Tail(rows))
            ELSE <<[model_id |-> Val(model_id), month |-> row.month,
                    google_trend_index |-> Val(google_trend_index)]>>
                 \o ReadGoogleRows(Tail(rows))

\* rows of naver_trend_<run_id>.csv
NaverRawRows ==
    { [model_id |-> <<"1">>, date |-> D_2024_01_01, ratio |-> <<"1">>],
      [model_id |-> <<"1">>, date |-> D_2024_01_15, ratio |-> <<"2">>],
      [model_id |-> <<"2">>, date |-> D_2024_02_01, ratio |-> <<" ", "3">>],
      [model_id |-> <<"1">>, date |-> D_2024, ratio |-> <<"1">>] }

\* rows of google_trend_<run_id>_normalized.csv
GoogleRawRows ==
    { [model_id |-> <<"1">>, month |-> D_2024_01_01, google_trend_index |-> <<"5">>],
      [model_id |-> <<"1">>, month |-> D_2024_01_01, google_trend_index |-> <<"7">>],
      [model_id |-> <<"2">>, month |-> D_2024_02_01, google_trend_index |-> <<"5">>],
      [model_id |-> <<"1">>, month |-> D_2024_02_01, google_trend_index |-> <<"x">>] }

MaxInterestRows == 2

\* a whole naver run and a whole google run, statement after statement
RECURSIVE ApplyNaver(_, _)
ApplyNaver(t, points) ==
    IF points = <<>> THEN t ELSE ApplyNaver(upsert_naver(t, Head(points)), Tail(points))

RECURSIVE ApplyGoogle(_, _)
ApplyGoogle(t, rows) ==
    IF rows = <<>> THEN t ELSE ApplyGoogle(upsert_google(t, Head(rows)), Tail(rows))

\* interest tables earlier runs have left: none, and one row of each loader
InterestTables ==
    { <<>>,
      ApplyNaver(
          ApplyGoogle(<<>>, ReadGoogleRows(<<[model_id |-> <<"1">>, month |-> D_2024_01_01,
                                             google_trend_index |-> <<"9">>]>>)),
          load_raw_csv(<<[model_id |-> <<"2">>, date |-> D_2024_02_01,
                          ratio |-> <<"4">>]>>).points) }

----------------------------------------------------------------------------
(* Serial interest runs *)

NoInterestLast == [op |-> "none", key |-> <<>>, value |-> 0, existed |-> FALSE]

InterestUnchanged == <<car_model, car_model_image, model_monthly_sales, stats, proc>>

\* the run record kept for the comparison of a run with the run before it
StartedRun(loader, raw) ==
    [snap EXCEPT !.pre = model_monthly_interest,
                 !.rerun = (snap.runs > 0 /\ snap.loader = loader /\ snap.raw = raw),
                 !.runs = @ + 1,
                 !.loader = loader,
                 !.raw = raw]

\* load_naver_interest.run_loader: points = load_raw_csv(run_id); a
\* ValueError ends the loader before upsert_naver_interest
StartNaver(raw) ==
    /\ phase = "idle"
    /\ snap.runs < MaxRuns
    /\ phase' = "naver"
    /\ input' = IF load_raw_csv(raw).failed THEN <<>> ELSE load_raw_csv(raw).points
    /\ idx' = 1
    /\ snap' = StartedRun("naver", raw)
    /\ nops' = 0
    /\ UNCHANGED <<model_monthly_interest, last>>
    /\ UNCHANGED InterestUnchanged

\* upsert_naver_interest: conn.execute(sql, ..) for one point
NaverUpsert ==
    /\ phase = "naver"
    /\ idx <= Len(input)
    /\ model_monthly_interest' = upsert_naver(model_monthly_interest, input[idx])
    /\ last' = [op |-> "naver", key |-> <<input[idx].model_id, input[idx].month>>,
                value |-> input[idx].naver_index,
                existed |-> <<input[idx].model_id, input[idx].month>>
                                \in DOMAIN model_monthly_interest]
    /\ idx' = idx + 1
    /\ nops' = nops + 1
    /\ UNCHANGED <<phase, input, snap>>
    /\ UNCHANGED InterestUnchanged

\* load_google_trend: the file is opened and read row by row
StartGoogle(raw) ==
    /\ phase = "idle"
    /\ snap.runs < MaxRuns
    /\ phase' = "google"
    /\ input' = ReadGoogleRows(raw)
    /\ idx' = 1
    /\ snap' = StartedRun("google", raw)
    /\ nops' = 0
    /\ UNCHANGED <<model_monthly_interest, last>>
    /\ UNCHANGED InterestUnchanged

\* load_google_trend: conn.execute(sql, ..) for one row
GoogleUpsert ==
    /\ phase = "google"
    /\ idx <= Len(input)
    /\ model_monthly_interest' = upsert_google(model_monthly_interest, input[idx])
    /\ last' = [op |-> "google", key |-> <<input[idx].model_id, input[idx].month>>,
                value |-> input[idx].google_trend_index,
                existed |-> <<input[idx].model_id, input[idx].month>>
                                \in DOMAIN model_monthly_interest]
    /\ idx' = idx + 1
    /\ nops' = nops + 1
    /\ UNCHANGED <<phase, input, snap>>
    /\ UNCHANGED InterestUnchanged

\* the end of the with block of either loader: commit
EndInterestRun ==
    /\ phase \in {"naver", "google"}
    /\ idx > Len(input)
    /\ phase' = "idle"
    /\ UNCHANGED <<model_monthly_interest, last, nops, input, idx, snap>>
    /\ UNCHANGED InterestUnchanged

InitInterest ==
    /\ car_model = RegisteredModels
    /\ car_model_image = <<>>
    /\ model_monthly_sales = <<>>
    /\ model_monthly_interest \in InterestTables
    /\ stats = ZeroMetaStats
    /\ last = NoInterestLast
    /\ nops = 0
    /\ phase = "idle"
    /\ input = <<>>
    /\ idx = 0
    /\ snap = [pre |-> model_monthly_interest, rerun |-> FALSE, runs |-> 0,
               loader |-> "none", raw |-> <<>>]
    /\ proc = <<>>

NextInterest ==
    \/ \E raw \in SeqsUpTo(NaverRawRows, MaxInterestRows) : StartNaver(raw)
    \/ NaverUpsert
    \/ \E raw \in SeqsUpTo(GoogleRawRows, MaxInterestRows) : StartGoogle(raw)
    \/ GoogleUpsert
    \/ EndInterestRun

\* interest loader runs executed one after another
SpecInterest == InitInterest /\ [][NextInterest]_vars

InterestColumns ==
    {"naver_index", "google_index", "danawa_popularity", "naver_search_index",
     "google_trend_index", "danawa_pop_rank", "danawa_pop_rank_size"}

\* the column a loader owns
OwnColumn(loader) == IF loader = "naver" THEN "naver_index" ELSE "google_trend_index"

\* C7: column preservation. An upsert of a loader on (model_id, month) sets
\* that loader's own column to the value it carries; every other measurement
\* column of the row keeps its stored value when the row existed and is NULL
\* when it did not; no other row changes. So a row written by one loader and
\* then by the other holds both values.
C7_ColumnPreservation ==
    [][ nops' = nops + 1 =>
        LET k == last'.key
            own == OwnColumn(last'.op)
        IN /\ DOMAIN model_monthly_interest' = DOMAIN model_monthly_interest \cup {k}
           /\ \A x \in DOMAIN model_monthly_interest \ {k} :
                 model_monthly_interest'[x] = model_monthly_interest[x]
           /\ model_monthly_interest'[k][own] = Some(last'.value)
           /\ \A c \in InterestColumns \ {own} :
                 model_monthly_interest'[k][c] =
                     IF k \in DOMAIN model_monthly_interest
                     THEN model_monthly_interest[k][c]
                     ELSE None ]_vars

\* the google loader has just written a row the naver loader had written:
\* both values are present
C7_Witness ==
    /\ last.op = "google" /\ last.existed
    /\ snap.runs = 2 /\ snap.pre # <<>>
    /\ ~IsNone(model_monthly_interest[last.key].naver_index)
    /\ model_monthly_interest[last.key].google_trend_index = Some(last.value)

\* C8: interest merge idempotence. When a loader has run again with the input
\* of the run before it, the table is the table the first of the two runs left.
C8_InterestIdempotent ==
    (snap.rerun /\ phase = "idle") => model_monthly_interest = snap.pre

\* a loader has run twice with an input that writes, on a table where a row
\* holds the values of both loaders
C8_Witness ==
    /\ snap.rerun /\ phase = "idle" /\ input # <<>>
    /\ \E k \in DOMAIN model_monthly_interest :
          /\ ~IsNone(model_monthly_interest[k].naver_index)
          /\ ~IsNone(model_monthly_interest[k].google_trend_index)

----------------------------------------------------------------------------
(* A naver run and a google run at the same time.  Each statement is one   *)
(* INSERT .. ON DUPLICATE KEY UPDATE, which reads and writes the current   *)
(* row under its lock: the runs interleave statement by statement.         *)

IdleLoader == [pc |-> "idle", items |-> <<>>, idx |-> 0, raw |-> <<>>]

InterestConcUnchanged ==
    <<car_model, car_model_image, model_monthly_sales, stats, last, phase, input, idx, snap>>

\* load_naver_interest.run_loader: load_raw_csv, then engine.begin()
ConcStartNaver(raw) ==
    /\ proc.naver.pc = "idle"
    /\ proc' = [proc EXCEPT !.naver =
                   [pc |-> "run",
                    items |-> IF load_raw_csv(raw).failed THEN <<>>
                              ELSE load_raw_csv(raw).points,
                    idx |-> 1, raw |-> raw]]
    /\ UNCHANGED <<model_monthly_interest, nops>>
    /\ UNCHANGED InterestConcUnchanged

\* upsert_naver_interest: conn.execute(sql, ..) for one point
ConcNaverUpsert ==
    /\ proc.naver.pc = "run"
    /\ proc.naver.idx <= Len(proc.naver.items)
    /\ model_monthly_interest' =
           upsert_naver(model_monthly_interest, proc.naver.items[proc.naver.idx])
    /\ proc' = [proc EXCEPT !.naver.idx = @ + 1]
    /\ nops' = nops + 1
    /\ UNCHANGED InterestConcUnchanged

\* load_google_trend: engine.begin() and the opening of the file
ConcStartGoogle(raw) ==
    /\ proc.google.pc = "idle"
    /\ proc' = [proc EXCEPT !.google =
                   [pc |-> "run", items |-> ReadGoogleRows(raw), idx |-> 1, raw |-> raw]]
    /\ UNCHANGED <<model_monthly_interest, nops>>
    /\ UNCHANGED InterestConcUnchanged

\* load_google_trend: conn.execute(sql, ..) for one row
ConcGoogleUpsert ==
    /\ proc.google.pc = "run"
    /\ proc.google.idx <= Len(proc.google.items)
    /\ model_monthly_interest' =
           upsert_google(model_monthly_interest, proc.google.items[proc.google.idx])
    /\ proc' = [proc EXCEPT !.google.idx = @ + 1]
    /\ nops' = nops + 1
    /\ UNCHANGED InterestConcUnchanged

\* the end of the with block of a loader: commit
ConcEndLoader(l) ==
    /\ proc[l].pc = "run"
    /\ proc[l].idx > Len(proc[l].items)
    /\ proc' = [proc EXCEPT ![l].pc = "done"]
    /\ UNCHANGED <<model_monthly_interest, nops>>
    /\ UNCHANGED InterestConcUnchanged

InitInterestConc ==
    /\ car_model = RegisteredModels
    /\ car_model_image = <<>>
    /\ model_monthly_sales = <<>>
    /\ model_monthly_interest \in InterestTables
    /\ stats = ZeroMetaStats
    /\ last = NoInterestLast
    /\ nops = 0
    /\ phase = "idle"
    /\ input = <<>>
    /\ idx = 0
    /\ snap = [init |-> model_monthly_interest]
    /\ proc = [naver |-> IdleLoader, google |-> IdleLoader]

NextInterestConc ==
    \/ \E raw \in SeqsUpTo(NaverRawRows, MaxInterestRows) : ConcStartNaver(raw)
    \/ ConcNaverUpsert
    \/ \E raw \in SeqsUpTo(GoogleRawRows, MaxInterestRows) : ConcStartGoogle(raw)
    \/ ConcGoogleUpsert
    \/ \E l \in {"naver", "google"} : ConcEndLoader(l)

\* one naver batch and one google batch, their upserts interleaved
SpecInterestConc == InitInterestConc /\ [][NextInterestConc]_vars

\* C10: confluence of the interest loaders. Whatever the order of the upserts
\* of a naver batch and a google batch, when both have ended the table is the
\* one the naver batch followed by the google batch leaves, which is also the
\* one the google batch followed by the naver batch leaves.
C10_InterestConfluent ==
    (proc.naver.pc = "done" /\ proc.google.pc = "done") =>
        /\ model_monthly_interest =
               ApplyGoogle(ApplyNaver(snap.init, proc.naver.items), proc.google.items)
        /\ model_monthly_interest =
               ApplyNaver(ApplyGoogle(snap.init, proc.google.items), proc.naver.items)

\* both batches have ended, each wrote two rows, and a row holds the values of
\* both
C10_Witness ==
    /\ proc.naver.pc = "done" /\ proc.google.pc = "done"
    /\ Len(proc.naver.items) = 2 /\ Len(proc.google.items) = 2
    /\ \E i \in 1..2, j \in 1..2 :
          /\ proc.naver.items[i].model_id = proc.google.items[j].model_id
          /\ proc.naver.items[i].month = proc.google.items[j].month
          /\ LET k == <<proc.naver.items[i].model_id, proc.naver.items[i].month>> IN
             /\ ~IsNone(model_monthly_interest[k].naver_index)
             /\ ~IsNone(model_monthly_interest[k].google_trend_index)

----------------------------------------------------------------------------
(* Sales loader: load_danawa_sales_to_db.py *)

RECURSIVE RemoveChar(_, _)
RemoveChar(s, c) ==
    IF s = <<>> THEN <<>>
    ELSE IF Head(s) = c THEN RemoveChar(Tail(s), c)
    ELSE <<Head(s)>> \o RemoveChar(Tail(s), c)

RECURSIVE OnlyDigits(_)
OnlyDigits(s) ==
    IF s = <<>> THEN <<>>
    ELSE IF Head(s) \in Digits THEN <<Head(s)>> \o OnlyDigits(Tail(s))
    ELSE OnlyDigits(Tail(s))

\* load_danawa_sales_to_db.parse_int_from_str: the digits of all the runs
\* re.findall(r"\d+") finds, joined
sales_parse_int_from_str(s) ==
    LET digits == OnlyDigits(RemoveChar(s, ",")) IN
    IF digits = <<>> THEN None ELSE Some(DigitsToInt(digits))

\* the longest prefix of s made of digits
RECURSIVE DigitRun(_)
DigitRun(s) ==
    IF s # <<>> /\ Head(s) \in Digits THEN <<Head(s)>> \o DigitRun(Tail(s)) ELSE <<>>

RECURSIVE Pow10(_)
Pow10(n) == IF n = 0 THEN 1 ELSE 10 * Pow10(n - 1)

\* a match of -?\d+(?:\.\d+)? at the head of s, as [neg, int, frac], or None
MatchNumber(s) ==
    LET neg == s # <<>> /\ Head(s) = "-"
        t == IF neg THEN Tail(s) ELSE s
        ip == DigitRun(t)
        rest == SubSeq(t, Len(ip) + 1, Len(t))
        fp == IF rest # <<>> /\ Head(rest) = "." THEN DigitRun(Tail(rest)) ELSE <<>>
    IN IF ip = <<>> THEN None ELSE Some([neg |-> neg, int |-> ip, frac |-> fp])

\* re.search: the leftmost match
RECURSIVE SearchNumber(_)
SearchNumber(s) ==
    IF s = <<>> THEN None
    ELSE IF ~IsNone(MatchNumber(s)) THEN MatchNumber(s)
    ELSE SearchNumber(Tail(s))

\* a signed fraction n / d, reduced
SignedFraction(n, d) ==
    IF n < 0 THEN [num |-> 0 - Fraction(0 - n, d).num, den |-> Fraction(0 - n, d).den]
    ELSE Fraction(n, d)

\* parse_share_ratio: the first decimal number of the cell, divided by 100
parse_share_ratio(s) ==
    IF s = <<>> THEN None
    ELSE LET m == SearchNumber(RemoveChar(s, ",")) IN
         IF IsNone(m) THEN None
         ELSE LET n == DigitsToInt(Val(m).int \o Val(m).frac)
                  d == Pow10(Len(Val(m).frac)) * 100
              IN Some(SignedFraction(IF Val(m).neg THEN 0 - n ELSE n, d))

\* extract_month_date_from_filename: (\d{4})_(\d{2})_00 -> YYYY-MM-01
extract_month_date_from_filename(year, month) == year \o <<"-">> \o month \o <<"-", "0", "1">>

\* load_normalized_sales_csv: the SalesRow list of one file
RECURSIVE ReadSalesRows(_, _, _)
ReadSalesRows(rows, brand_code, month_date) ==
    IF rows = <<>> THEN <<>>
    ELSE LET r == Head(rows)
             model_name == strip(r.model_name)
             sales_units == sales_parse_int_from_str(strip(r.sales))
         IN IF model_name = <<>> \/ IsNone(sales_units)
            THEN ReadSalesRows(Tail(rows), brand_code, month_date)
            ELSE <<[brand_code |-> brand_code, month |-> month_date,
                    model_name |-> model_name, sales_units |-> Val(sales_units),
                    share_ratio |-> parse_share_ratio(strip(r.share))]>>
                 \o ReadSalesRows(Tail(rows), brand_code, month_date)

load_normalized_sales_csv(file) ==
    ReadSalesRows(file.rows, file.brand_code,
                  extract_month_date_from_filename(file.year, file.month))

\* the total without the first record of the file
TotalUnits_ExceptFirst(sales_rows) ==
    SumSeq([i \in 1..Len(sales_rows) |-> IF i = 1 THEN 0 ELSE sales_rows[i].sales_units])

\* total_units_by_month[sr.month] of one file: all its rows have its month
RECURSIVE TotalUnits(_)
TotalUnits(sales_rows) ==
    IF sales_rows = <<>> THEN 0
    ELSE Head(sales_rows).sales_units + TotalUnits(Tail(sales_rows))

\* the adoption rate with the computed ratio before the share of the source
adoption_rate_ComputedFirst(sr, market_total_units) ==
    IF market_total_units # 0
    THEN Some(Fraction(sr.sales_units, market_total_units))
    ELSE sr.share_ratio

\* adoption_rate of a SalesRow
adoption_rate(sr, market_total_units) ==
    IF ~IsNone(sr.share_ratio) THEN sr.share_ratio
    ELSE IF market_total_units # 0
         THEN Some(Fraction(sr.sales_units, market_total_units))
         ELSE None

\* the VALUES of the INSERT for a SalesRow
SalesFact(sr, market_total_units) ==
    [sales_units |-> sr.sales_units,
     market_total_units |-> IF market_total_units # 0 THEN Some(market_total_units) ELSE None,
     adoption_rate |-> adoption_rate(sr, market_total_units),
     source |-> "DANAWA"]

\* the statement adding the units to the stored row
upsert_sales_Accumulate(t, model_id, sr, market_total_units) ==
    LET k == <<model_id, sr.month>> IN
    IF k \in DOMAIN t
    THEN [t EXCEPT ![k] = [SalesFact(sr, market_total_units) EXCEPT
                              !.sales_units = t[k].sales_units + sr.sales_units]]
    ELSE Put(t, k, SalesFact(sr, market_total_units))

\* the INSERT without its ON DUPLICATE KEY UPDATE: a stored row is kept
upsert_sales_InsertIgnore(t, model_id, sr, market_total_units) ==
    IF <<model_id, sr.month>> \in DOMAIN t THEN t
    ELSE Put(t, <<model_id, sr.month>>, SalesFact(sr, market_total_units))

\* INSERT INTO model_monthly_sales .. ON DUPLICATE KEY UPDATE sales_units,
\* market_total_units, adoption_rate, source = VALUES(..)
upsert_sales(t, model_id, sr, market_total_units) ==
    Put(t, <<model_id, sr.month>>, SalesFact(sr, market_total_units))

ZeroSalesStats == [total_rows |-> 0, no_model_match |-> 0, insert_or_update |-> 0]

\* the loop body storing the fact of an unmatched record under model 0
process_sales_row_WriteUnmatched(t, st, sr, market_total_units, row) ==
    IF IsNone(row)
    THEN [model_monthly_sales |-> upsert_sales(t, 0, sr, market_total_units),
          stats |-> [st EXCEPT !.total_rows = @ + 1, !.no_model_match = @ + 1]]
    ELSE [model_monthly_sales |-> upsert_sales(t, Val(row), sr, market_total_units),
          stats |-> [st EXCEPT !.total_rows = @ + 1, !.insert_or_update = @ + 1]]

\* the loop body counting total_rows after the lookup, for matched records only
process_sales_row_CountAfterMatch(t, st, sr, market_total_units, row) ==
    IF IsNone(row)
    THEN [model_monthly_sales |-> t,
          stats |-> [st EXCEPT !.no_model_match = @ + 1]]
    ELSE [model_monthly_sales |-> upsert_sales(t, Val(row), sr, market_total_units),
          stats |-> [st EXCEPT !.total_rows = @ + 1, !.insert_or_update = @ + 1]]

\* one SalesRow (the body of the second loop over sales_rows), given the row
\* the SELECT on car_model returned
process_sales_row(t, st, sr, market_total_units, row) ==
    IF IsNone(row)
    THEN [model_monthly_sales |-> t,
          stats |-> [st EXCEPT !.total_rows = @ + 1, !.no_model_match = @ + 1]]
    ELSE [model_monthly_sales |-> upsert_sales(t, Val(row), sr, market_total_units),
          stats |-> [st EXCEPT !.total_rows = @ + 1, !.insert_or_update = @ + 1]]

Y2024 == <<"2", "0", "2", "4">>

\* rows of *_model_sales_*_normalized.csv files: model name, sales, share cells
SalesCell(n, u, sh) == [model_name |-> n, sales |-> u, share |-> sh]

SalesFiles ==
    { [brand_code |-> "hyundai", year |-> Y2024, month |-> <<"0", "1">>,
       rows |-> << SalesCell(<<"a">>, <<"1", "0">>, <<>>),
                   SalesCell(<<"b">>, <<"5">>, <<>>) >>],
      [brand_code |-> "hyundai", year |-> Y2024, month |-> <<"0", "1">>,
       rows |-> << SalesCell(<<"a">>, <<"1", ",", "5">>, <<"2", ".", "5", "%">>),
                   SalesCell(<<"a">>, <<"5">>, <<>>) >>],
      [brand_code |-> "kia", year |-> Y2024, month |-> <<"0", "1">>,
       rows |-> << SalesCell(<<" ", "a", " ">>, <<"0">>, <<>>),
                   SalesCell(<<"a">>, <<"x">>, <<>>) >>],
      [brand_code |-> "hyundai", year |-> Y2024, month |-> <<"0", "2">>,
       rows |-> << SalesCell(<<"a">>, <<"7">>, <<"-", "1", ".", "5", " ", "%">>) >>],
      [brand_code |-> "kia", year |-> Y2024, month |-> <<"0", "2">>,
       rows |-> <<>>] }

MaxFiles == 2

\* sales tables earlier runs have left
SalesTables ==
    { <<>>,
      upsert_sales(<<>>, 1,
          [brand_code |-> "hyundai", month |-> D_2024_01_01, model_name |-> <<"a">>,
           sales_units |-> 9, share_ratio |-> None], 9) }

----------------------------------------------------------------------------
(* Serial sales runs *)

SalesUnchanged == <<car_model, car_model_image, model_monthly_interest, last, proc>>

\* run_loader: engine.begin(), fresh counters; the files of the brands of the
\* run, each read by load_normalized_sales_csv when its turn comes
StartSales(files) ==
    /\ phase = "idle"
    /\ snap.runs < MaxRuns
    /\ phase' = "sales"
    /\ stats' = ZeroSalesStats
    /\ input' = [f \in 1..Len(files) |->
                    [brand_code |-> files[f].brand_code,
                     sales_rows |-> load_normalized_sales_csv(files[f])]]
    /\ idx' = <<1, 1>>
    /\ snap' = [pre |-> model_monthly_sales,
                rerun |-> (snap.runs > 0 /\ snap.raw = files),
                runs |-> snap.runs + 1,
                raw |-> files]
    /\ nops' = 0
    /\ UNCHANGED model_monthly_sales
    /\ UNCHANGED SalesUnchanged

\* process_sales_for_brand: one SalesRow of the current file
ProcessSalesRow ==
    /\ phase = "sales"
    /\ idx[1] <= Len(input)
    /\ idx[2] <= Len(input[idx[1]].sales_rows)
    /\ LET file == input[idx[1]]
           sr == file.sales_rows[idx[2]]
       IN \E row \in fetchone(SelectModelByName(car_model,
                         db_brand_name(file.brand_code, sr), sr.model_name)) :
             LET r == process_sales_row(model_monthly_sales, stats, sr,
                                        TotalUnits(file.sales_rows), row) IN
             /\ model_monthly_sales' = r.model_monthly_sales
             /\ stats' = r.stats
    /\ idx' = <<idx[1], idx[2] + 1>>
    /\ nops' = nops + 1
    /\ UNCHANGED <<phase, input, snap>>
    /\ UNCHANGED SalesUnchanged

\* process_sales_for_brand: the next file (an empty one is passed over)
NextSalesFile ==
    /\ phase = "sales"
    /\ idx[1] <= Len(input)
    /\ idx[2] > Len(input[idx[1]].sales_rows)
    /\ idx' = <<idx[1] + 1, 1>>
    /\ UNCHANGED <<model_monthly_sales, stats, nops, phase, input, snap>>
    /\ UNCHANGED SalesUnchanged

\* run_loader: the end of the with block, commit
EndSales ==
    /\ phase = "sales"
    /\ idx[1] > Len(input)
    /\ phase' = "idle"
    /\ UNCHANGED <<model_monthly_sales, stats, nops, input, idx, snap>>
    /\ UNCHANGED SalesUnchanged

InitSales ==
    /\ car_model \in {RegisteredModels, EnrichedModels}
    /\ car_model_image = <<>>
    /\ model_monthly_sales \in SalesTables
    /\ model_monthly_interest = <<>>
    /\ stats = ZeroSalesStats
    /\ last = NoLast
    /\ nops = 0
    /\ phase = "idle"
    /\ input = <<>>
    /\ idx = <<1, 1>>
    /\ snap = [pre |-> model_monthly_sales, rerun |-> FALSE, runs |-> 0, raw |-> <<>>]
    /\ proc = <<>>

NextSales ==
    \/ \E files \in SeqsUpTo(SalesFiles, MaxFiles) : StartSales(files)
    \/ ProcessSalesRow
    \/ NextSalesFile
    \/ EndSales

\* sales loader runs executed one after another
SpecSales == InitSales /\ [][NextSales]_vars

\* C9: sales upsert idempotence. When the sales loader has run again over the
\* files of the run before it, model_monthly_sales has the rows the first of
\* the two runs left: the same keys with the same sales_units,
\* market_total_units, adoption_rate and source.
C9_SalesIdempotent ==
    (snap.rerun /\ phase = "idle") => model_monthly_sales = snap.pre

\* the loader has run twice over files that upsert, a stored row carries a
\* computed adoption rate, and a record was skipped as unmatched
C9_Witness ==
    /\ snap.rerun /\ phase = "idle"
    /\ stats.insert_or_update >= 2
    /\ \E k \in DOMAIN model_monthly_sales :
          /\ ~IsNone(model_monthly_sales[k].market_total_units)
          /\ ~IsNone(model_monthly_sales[k].adoption_rate)
          /\ Val(model_monthly_sales[k].adoption_rate).den # 1

----------------------------------------------------------------------------
(* Metadata rows in two processing orders *)

\* C12: permanence of the first writer. Once a car_model row holds a
\* danawa_model_id, every later metadata row leaves that row's
\* danawa_model_id as it is.
C12_FirstWriterPermanent ==
    [][ \A i \in 1..Len(car_model) :
           ~IsNone(car_model[i].danawa_model_id)
               => car_model'[i].danawa_model_id = car_model[i].danawa_model_id ]_vars

MaxOrderRows == 2

\* metadata rows of the registered models, without image
OrderRows ==
    {mr \in MetaRows : mr.brand_code \in BrandCodes /\ mr.model_name \in ModelNames
                       /\ IsNone(mr.image_url)}

\* the sequences holding the rows of s, each as many times as s holds it
Perms(s) ==
    {t \in [1..Len(s) -> {s[i] : i \in 1..Len(s)}] :
        \A x \in {s[i] : i \in 1..Len(s)} :
            Cardinality({i \in 1..Len(s) : s[i] = x})
                = Cardinality({i \in 1..Len(s) : t[i] = x})}

\* the loop over meta_rows, one row of the file as it is
OrderStepFirst ==
    /\ idx[1] <= Len(input)
    /\ LET mr == input[idx[1]] IN
       \E row \in fetchone(SelectModelByName(car_model,
                      db_brand_name(mr.brand_code, mr), mr.model_name)),
          conflict \in ConflictRows(car_model, mr) :
          LET r == process_meta_row(car_model, car_model_image, stats, mr, row, conflict) IN
          /\ car_model' = r.car_model
          /\ car_model_image' = r.car_model_image
          /\ stats' = r.stats
    /\ idx' = <<idx[1] + 1, idx[2]>>
    /\ UNCHANGED <<model_monthly_sales, model_monthly_interest, last, nops, phase,
                   input, snap, proc>>

\* the loop over meta_rows, one row of the file with its rows in another order
OrderStepSecond ==
    /\ idx[2] <= Len(snap.rows)
    /\ LET mr == snap.rows[idx[2]] IN
       \E row \in fetchone(SelectModelByName(snap.car_model,
                      db_brand_name(mr.brand_code, mr), mr.model_name)),
          conflict \in ConflictRows(snap.car_model, mr) :
          LET r == process_meta_row(snap.car_model, snap.car_model_image, snap.stats,
                                    mr, row, conflict) IN
          snap' = [snap EXCEPT !.car_model = r.car_model,
                               !.car_model_image = r.car_model_image,
                               !.stats = r.stats]
    /\ idx' = <<idx[1], idx[2] + 1>>
    /\ UNCHANGED <<car_model, car_model_image, model_monthly_sales,
                   model_monthly_interest, stats, last, nops, phase, input, proc>>

InitMetaOrder ==
    /\ car_model \in {RegisteredModels, EnrichedModels}
    /\ car_model_image = <<>>
    /\ model_monthly_sales = <<>>
    /\ model_monthly_interest = <<>>
    /\ stats = ZeroMetaStats
    /\ last = NoLast
    /\ nops = 0
    /\ phase = "meta"
    /\ input \in SeqsUpTo(OrderRows, MaxOrderRows)
    /\ idx = <<1, 1>>
    /\ \E rows \in Perms(input) :
          snap = [init |-> car_model, rows |-> rows, car_model |-> car_model,
                  car_model_image |-> <<>>, stats |-> ZeroMetaStats]
    /\ proc = <<>>

NextMetaOrder ==
    \/ OrderStepFirst
    \/ OrderStepSecond

\* the same registry enriched by the same rows in two orders
SpecMetaOrder == InitMetaOrder /\ [][NextMetaOrder]_vars

\* C11: order independence of enrichment. When the rows of a file and the
\* same rows in another order have both been processed from the same
\* registry, every car_model row has the same danawa_model_id and
\* danawa_model_url in both.
C11_EnrichmentOrderIndependent ==
    (idx[1] > Len(input) /\ idx[2] > Len(snap.rows)) =>
        \A i \in 1..Len(car_model) :
            /\ car_model[i].danawa_model_id = snap.car_model[i].danawa_model_id
            /\ car_model[i].danawa_model_url = snap.car_model[i].danawa_model_url

----------------------------------------------------------------------------
(* Sales runs with storage failures.  run_loader holds one transaction     *)
(* (engine.begin()) over all the files of the run: the statements act on   *)
(* the connection's table, the end of the with block commits it, and an    *)
(* exception raised by a statement leaves the with block by a rollback.    *)

\* the number of SalesRows of a file that match a car_model row
NumMatched(cm, file) ==
    Cardinality({i \in 1..Len(file.sales_rows) :
        SelectModelByName(cm, db_brand_name(file.brand_code, file.sales_rows[i]),
                          file.sales_rows[i].model_name) # {}})

\* a failing transaction that keeps what its statements wrote
rollback_KeepWrites(committed, written) == written

\* engine.begin() left by an exception: the transaction's writes are undone
rollback(committed, written) == committed

\* engine.begin() left normally: the transaction's writes are stored
commit(committed, written) == written

\* the runs of a behaviour of the transactional sales model
MaxTxRuns == 1

\* the files of 2024-01 of the sales folders
TxFiles == {f \in SalesFiles : f.month = <<"0", "1">>}

SalesTxUnchanged == <<car_model, car_model_image, model_monthly_interest, last>>

\* run_loader: engine.begin(), fresh counters, the files of the run
TxStartSales(files) ==
    /\ phase = "idle"
    /\ snap.runs < MaxTxRuns
    /\ phase' = "sales"
    /\ stats' = ZeroSalesStats
    /\ input' = [f \in 1..Len(files) |->
                    [brand_code |-> files[f].brand_code,
                     sales_rows |-> load_normalized_sales_csv(files[f])]]
    /\ idx' = <<1, 1>>
    /\ nops' = 0
    /\ proc' = [conn |-> model_monthly_sales, applied |-> [f \in 1..Len(files) |-> 0]]
    /\ snap' = [pre |-> model_monthly_sales, runs |-> snap.runs + 1,
                outcome |-> "running", stored |-> [f \in 1..Len(files) |-> 0]]
    /\ UNCHANGED model_monthly_sales
    /\ UNCHANGED SalesTxUnchanged

\* process_sales_for_brand: one SalesRow of the current file, on the connection
TxProcessSalesRow ==
    /\ phase = "sales"
    /\ idx[1] <= Len(input)
    /\ idx[2] <= Len(input[idx[1]].sales_rows)
    /\ LET file == input[idx[1]]
           sr == file.sales_rows[idx[2]]
       IN \E row \in fetchone(SelectModelByName(car_model,
                         db_brand_name(file.brand_code, sr), sr.model_name)) :
             LET r == process_sales_row(proc.conn, stats, sr,
                                        TotalUnits(file.sales_rows), row) IN
             /\ proc' = [conn |-> r.model_monthly_sales,
                         applied |-> [proc.applied EXCEPT ![idx[1]] =
                                         IF IsNone(row) THEN @ ELSE @ + 1]]
             /\ stats' = r.stats
    /\ idx' = <<idx[1], idx[2] + 1>>
    /\ nops' = nops + 1
    /\ UNCHANGED <<model_monthly_sales, phase, input, snap>>
    /\ UNCHANGED SalesTxUnchanged

\* process_sales_for_brand: the next file
TxNextSalesFile ==
    /\ phase = "sales"
    /\ idx[1] <= Len(input)
    /\ idx[2] > Len(input[idx[1]].sales_rows)
    /\ idx' = <<idx[1] + 1, 1>>
    /\ UNCHANGED <<model_monthly_sales, stats, nops, phase, input, snap, proc>>
    /\ UNCHANGED SalesTxUnchanged

\* run_loader: the end of the with block
TxEndSales ==
    /\ phase = "sales"
    /\ idx[1] > Len(input)
    /\ phase' = "idle"
    /\ model_monthly_sales' = commit(model_monthly_sales, proc.conn)
    /\ snap' = [snap EXCEPT !.outcome = "ok",
                            !.stored = commit(snap.stored, proc.applied)]
    /\ UNCHANGED <<stats, nops, input, idx, proc>>
    /\ UNCHANGED SalesTxUnchanged

\* a conn.execute of the run raises (the storage fails): the exception leaves
\* process_sales_for_brand and the with block of run_loader
TxStorageFailure ==
    /\ phase = "sales"
    /\ phase' = "idle"
    /\ model_monthly_sales' = rollback(model_monthly_sales, proc.conn)
    /\ snap' = [snap EXCEPT !.outcome = "error",
                            !.stored = rollback(snap.stored, proc.applied)]
    /\ UNCHANGED <<stats, nops, input, idx, proc>>
    /\ UNCHANGED SalesTxUnchanged

InitSalesTx ==
    /\ car_model \in {RegisteredModels, EnrichedModels}
    /\ car_model_image = <<>>
    /\ model_monthly_sales \in SalesTables
    /\ model_monthly_interest = <<>>
    /\ stats = ZeroSalesStats
    /\ last = NoLast
    /\ nops = 0
    /\ phase = "idle"
    /\ input = <<>>
    /\ idx = <<1, 1>>
    /\ snap = [pre |-> model_monthly_sales, runs |-> 0, outcome |-> "none", stored |-> <<>>]
    /\ proc = [conn |-> model_monthly_sales, applied |-> <<>>]

NextSalesTx ==
    \/ \E files \in SeqsUpTo(TxFiles, MaxFiles) : TxStartSales(files)
    \/ TxProcessSalesRow
    \/ TxNextSalesFile
    \/ TxEndSales
    \/ TxStorageFailure

\* sales runs, any statement of which may fail
SpecSalesTx == InitSalesTx /\ [][NextSalesTx]_vars

\* C13: per-file atomicity of sales ingestion. In every state, for every file
\* of the run the stored table holds the effect of all the upserts of the file
\* or of none of them; after a run that a storage failure ended the stored
\* table is the table the run began with.
C13_PerFileAtomic ==
    /\ \A f \in 1..Len(snap.stored) :
          snap.stored[f] \in {0, NumMatched(car_model, input[f])}
    /\ snap.outcome \in {"running", "error"} => model_monthly_sales = snap.pre

\* a storage failure has ended a run after one of the two upserts of a file:
\* the connection's table had changed and the stored table has not
C13_Witness ==
    /\ phase = "idle" /\ snap.outcome = "error"
    /\ \E f \in 1..Len(input) :
          /\ NumMatched(car_model, input[f]) = 2
          /\ proc.applied[f] = 1
    /\ proc.conn # snap.pre
    /\ model_monthly_sales = snap.pre

----------------------------------------------------------------------------
(* Runs whose input is missing.  load_candidates, load_raw_csv and         *)
(* load_google_trend raise FileNotFoundError; process_sales_for_brand and  *)
(* process_meta_for_brand print a warning and return, and run_loader goes  *)
(* on with the next brand.                                                 *)

\* a brand directory of a sales run: missing, without files, or with one file
SalesDirs(brand_code) ==
    {None, Some(<<>>)} \cup {Some(<<f>>) : f \in {g \in SalesFiles : g.brand_code = brand_code}}

\* a brand directory of a metadata run: missing, without files, or with one
\* file of one row
MetaDirs(brand_code) ==
    {None, Some(<<>>)} \cup {Some(<<mr>>) : mr \in {r \in OrderRows : r.brand_code = brand_code}}

\* the contents of the directories that exist, in the order of the brands
RECURSIVE DirContents(_)
DirContents(dirs) ==
    IF dirs = <<>> THEN <<>>
    ELSE (IF IsNone(Head(dirs)) THEN <<>> ELSE Val(Head(dirs))) \o DirContents(Tail(dirs))

AnyMissing(dirs) == \E i \in 1..Len(dirs) : IsNone(dirs[i])

Stores == <<car_model, car_model_image, model_monthly_sales, model_monthly_interest>>

MissingLog(op, missing, outcome) == [op |-> op, missing |-> missing, outcome |-> outcome]

\* upsert_car_model: the first next() of load_candidates raises
\* FileNotFoundError inside the with block
MissingCandidates ==
    /\ phase = "idle"
    /\ snap.runs < MaxRuns
    /\ last' = MissingLog("register", TRUE, "error")
    /\ snap' = [pre |-> Stores, runs |-> snap.runs + 1]
    /\ UNCHANGED <<car_model, car_model_image, model_monthly_sales,
                   model_monthly_interest, stats, nops, phase, input, idx, proc>>

\* load_naver_interest.run_loader: load_raw_csv raises FileNotFoundError
MissingNaver ==
    /\ phase = "idle"
    /\ snap.runs < MaxRuns
    /\ last' = MissingLog("naver", TRUE, "error")
    /\ snap' = [pre |-> Stores, runs |-> snap.runs + 1]
    /\ UNCHANGED <<car_model, car_model_image, model_monthly_sales,
                   model_monthly_interest, stats, nops, phase, input, idx, proc>>

\* load_google_trend raises FileNotFoundError before get_engine
MissingGoogle ==
    /\ phase = "idle"
    /\ snap.runs < MaxRuns
    /\ last' = MissingLog("google", TRUE, "error")
    /\ snap' = [pre |-> Stores, runs |-> snap.runs + 1]
    /\ UNCHANGED <<car_model, car_model_image, model_monthly_sales,
                   model_monthly_interest, stats, nops, phase, input, idx, proc>>

\* load_danawa_sales_to_db.run_loader over brand directories some of which
\* may be missing: process_sales_for_brand returns for those
DirsStartSales(dirs) ==
    /\ phase = "idle"
    /\ snap.runs < MaxRuns
    /\ phase' = "sales"
    /\ stats' = ZeroSalesStats
    /\ input' = [f \in 1..Len(DirContents(dirs)) |->
                    [brand_code |-> DirContents(dirs)[f].brand_code,
                     sales_rows |-> load_normalized_sales_csv(DirContents(dirs)[f])]]
    /\ idx' = <<1, 1>>
    /\ nops' = 0
    /\ last' = MissingLog("sales", AnyMissing(dirs), "running")
    /\ snap' = [pre |-> Stores, runs |-> snap.runs + 1]
    /\ UNCHANGED <<car_model, car_model_image, model_monthly_sales,
                   model_monthly_interest, proc>>

\* load_danawa_meta_to_db.run_loader over brand directories some of which
\* may be missing: process_meta_for_brand returns for those
DirsStartMeta(dirs) ==
    /\ phase = "idle"
    /\ snap.runs < MaxRuns
    /\ phase' = "meta"
    /\ stats' = ZeroMetaStats
    /\ input' = DirContents(dirs)
    /\ idx' = <<1, 1>>
    /\ nops' = 0
    /\ last' = MissingLog("meta", AnyMissing(dirs), "running")
    /\ snap' = [pre |-> Stores, runs |-> snap.runs + 1]
    /\ UNCHANGED <<car_model, car_model_image, model_monthly_sales,
                   model_monthly_interest, proc>>

DirsSalesRow == phase = "sales" /\ ProcessSalesRow

DirsSalesFile == phase = "sales" /\ NextSalesFile

DirsMetaRow == phase = "meta" /\ OrderStepFirst

\* run_loader of either loader: the with block ends, the summary is printed
DirsEndRun ==
    /\ phase \in {"sales", "meta"}
    /\ idx[1] > Len(input)
    /\ phase' = "idle"
    /\ last' = [last EXCEPT !.outcome = "ok"]
    /\ UNCHANGED <<car_model, car_model_image, model_monthly_sales,
                   model_monthly_interest, stats, nops, input, idx, snap, proc>>

InitMissing ==
    /\ car_model \in {RegisteredModels, EnrichedModels}
    /\ car_model_image = <<>>
    /\ model_monthly_sales \in SalesTables
    /\ model_monthly_interest \in InterestTables
    /\ stats = ZeroSalesStats
    /\ last = MissingLog("none", FALSE, "none")
    /\ nops = 0
    /\ phase = "idle"
    /\ input = <<>>
    /\ idx = <<1, 1>>
    /\ snap = [pre |-> Stores, runs |-> 0]
    /\ proc = <<>>

NextMissing ==
    \/ MissingCandidates
    \/ MissingNaver
    \/ MissingGoogle
    \/ \E h \in SalesDirs("hyundai"), k \in SalesDirs("kia") : DirsStartSales(<<h, k>>)
    \/ \E h \in MetaDirs("hyundai"), k \in MetaDirs("kia") : DirsStartMeta(<<h, k>>)
    \/ DirsSalesRow
    \/ DirsSalesFile
    \/ DirsMetaRow
    \/ DirsEndRun

\* runs of the five loaders with a missing input
SpecMissing == InitMissing /\ [][NextMissing]_vars

\* C14: a missing input is fatal and precedes every write. When a run whose
\* input file or directory is missing has ended, its outcome is an error and
\* the four tables are the tables the run began with.
C14_MissingInputFatal ==
    (phase = "idle" /\ last.missing) => (last.outcome = "error" /\ Stores = snap.pre)

----------------------------------------------------------------------------
(* Candidate aggregator: extract_car_model_candidates.py *)

\* the order of Python on the characters of a month text
CharOrd(c) == IF c = "-" THEN 0 ELSE 1 + DigitVal(c)

\* a < b for two texts (str.__lt__)
RECURSIVE StrLess(_, _)
StrLess(a, b) ==
    IF b = <<>> THEN FALSE
    ELSE IF a = <<>> THEN TRUE
    ELSE IF Head(a) # Head(b) THEN CharOrd(Head(a)) < CharOrd(Head(b))
    ELSE StrLess(Tail(a), Tail(b))

\* parse_month_from_filename: (\d{4})_(\d{2})_00 -> YYYY-MM
parse_month_from_filename(year, month) == year \o <<"-">> \o month

\* int(sales_str.replace(",", "")) if sales_str else 0, 0 on ValueError
candidate_sales(sales_str) ==
    IF sales_str = <<>> THEN 0
    ELSE IF IsNone(int(RemoveChar(sales_str, ","))) THEN 0
    ELSE Val(int(RemoveChar(sales_str, ",")))

\* ModelStat(brand_name, model_name_kr, None, None, set(), 0)
NewModelStat(brand_name, model_name) ==
    [brand_name |-> brand_name, model_name_kr |-> model_name,
     first_month |-> None, last_month |-> None, months |-> {}, total_sales |-> 0]

\* an update that takes the month of the row as the last month
ModelStat_update_LastSeen(ms, month, sales) ==
    [ms EXCEPT
        !.first_month = IF IsNone(@) \/ StrLess(month, Val(@)) THEN Some(month) ELSE @,
        !.last_month = Some(month),
        !.months = @ \cup {month},
        !.total_sales = @ + sales]

\* an update that counts the sales of a month only the first time it is seen
ModelStat_update_OncePerMonth(ms, month, sales) ==
    [ms EXCEPT
        !.first_month = IF IsNone(@) \/ StrLess(month, Val(@)) THEN Some(month) ELSE @,
        !.last_month = IF IsNone(@) \/ StrLess(Val(@), month) THEN Some(month) ELSE @,
        !.months = @ \cup {month},
        !.total_sales = IF month \in ms.months THEN @ ELSE @ + sales]

\* ModelStat.update
ModelStat_update(ms, month, sales) ==
    [ms EXCEPT
        !.first_month = IF IsNone(@) \/ StrLess(month, Val(@)) THEN Some(month) ELSE @,
        !.last_month = IF IsNone(@) \/ StrLess(Val(@), month) THEN Some(month) ELSE @,
        !.months = @ \cup {month},
        !.total_sales = @ + sales]

\* ModelStat.to_row
to_row(ms) ==
    [brand_name |-> ms.brand_name, model_name_kr |-> ms.model_name_kr,
     first_month |-> IF IsNone(ms.first_month) THEN <<>> ELSE Val(ms.first_month),
     last_month |-> IF IsNone(ms.last_month) THEN <<>> ELSE Val(ms.last_month),
     months_count |-> Cardinality(ms.months),
     total_sales |-> ms.total_sales]

\* build_model_candidates: one row of a normalized file
build_row(st, r) ==
    IF r.model_name = <<>> THEN st
    ELSE LET key == <<r.brand_name, r.model_name>>
             ms == IF key \in DOMAIN st THEN st[key]
                   ELSE NewModelStat(r.brand_name, r.model_name)
         IN Put(st, key, ModelStat_update(ms, parse_month_from_filename(r.year, r.month),
                                          candidate_sales(r.sales)))

AggRow(b, y, m, n, s) ==
    [brand_name |-> b, year |-> y, month |-> m, model_name |-> n, sales |-> s]

Y2023 == <<"2", "0", "2", "3">>

\* rows of the normalized files, each with the brand and the month of its file
AggRows ==
    { AggRow(Hyundai, Y2024, <<"0", "1">>, <<"a">>, <<"5">>),
      AggRow(Hyundai, Y2023, <<"1", "2">>, <<"a">>, <<"1", ",", "0">>),
      AggRow(Hyundai, Y2024, <<"0", "2">>, <<"a">>, <<"x">>),
      AggRow(Kia, Y2024, <<"0", "1">>, <<"a">>, <<"3">>),
      AggRow(Hyundai, Y2024, <<"0", "1">>, <<>>, <<"4">>) }

MaxAggRows == 3

AggUnchanged ==
    <<car_model, car_model_image, model_monthly_sales, model_monthly_interest,
      last, nops, phase, input, proc>>

\* the loop of build_model_candidates, on the rows as the files give them
AggStepFirst ==
    /\ idx[1] <= Len(input)
    /\ stats' = build_row(stats, input[idx[1]])
    /\ idx' = <<idx[1] + 1, idx[2]>>
    /\ UNCHANGED snap
    /\ UNCHANGED AggUnchanged

\* the loop of build_model_candidates, on the same rows in another order
AggStepSecond ==
    /\ idx[1] > Len(input)
    /\ idx[2] <= Len(snap.rows)
    /\ snap' = [snap EXCEPT !.stats = build_row(snap.stats, snap.rows[idx[2]])]
    /\ idx' = <<idx[1], idx[2] + 1>>
    /\ UNCHANGED stats
    /\ UNCHANGED AggUnchanged

InitAgg ==
    /\ car_model = <<>>
    /\ car_model_image = <<>>
    /\ model_monthly_sales = <<>>
    /\ model_monthly_interest = <<>>
    /\ stats = <<>>
    /\ last = NoLast
    /\ nops = 0
    /\ phase = "aggregate"
    /\ input \in SeqsUpTo(AggRows, MaxAggRows)
    /\ idx = <<1, 1>>
    /\ \E rows \in Perms(input) : snap = [rows |-> rows, stats |-> <<>>]
    /\ proc = <<>>

NextAgg ==
    \/ AggStepFirst
    \/ AggStepSecond

\* build_model_candidates over the same rows in two orders
SpecAgg == InitAgg /\ [][NextAgg]_vars

\* C15: order independence of the candidate aggregator. When the same rows
\* have been aggregated in two orders, both aggregates have the same keys
\* (brand_name, model_name_kr) and for every key the same first_month,
\* last_month, months_count and total_sales.
C15_AggregateOrderIndependent ==
    (idx[1] > Len(input) /\ idx[2] > Len(snap.rows)) =>
        /\ DOMAIN stats = DOMAIN snap.stats
        /\ \A k \in DOMAIN stats : to_row(stats[k]) = to_row(snap.stats[k])

\* three rows of one model in two different orders have been aggregated: two
\* months, first and last differ
C15_Witness ==
    /\ idx[1] > Len(input) /\ idx[2] > Len(snap.rows)
    /\ Len(input) = 3 /\ snap.rows # input
    /\ \E k \in DOMAIN stats :
          /\ to_row(stats[k]).months_count >= 2
          /\ to_row(stats[k]).first_month # to_row(stats[k]).last_month
          /\ to_row(stats[k]).total_sales = 15

----------------------------------------------------------------------------
(* Normalizer: danawa_normalizer.py *)

\* the glyphs of a rise and of a fall in a change cell
UpGlyph == "U"

DownGlyph == "D"

\* danawa_normalizer.parse_int_from_str
parse_int_from_str(s) ==
    LET t == strip(s)
        digits == OnlyDigits(RemoveChar(t, ","))
    IN IF t = <<>> \/ digits = <<>> THEN None ELSE Some(DigitsToInt(digits))

\* the first token of s and what follows it, s beginning with no whitespace
RECURSIVE Token(_)
Token(s) ==
    IF s = <<>> \/ Head(s) \in Whitespace THEN <<>> ELSE <<Head(s)>> \o Token(Tail(s))

\* str.split(): the maximal runs of characters that are not whitespace
RECURSIVE split(_)
split(s) ==
    LET t == lstrip(s) IN
    IF t = <<>> THEN <<>>
    ELSE <<Token(t)>> \o split(SubSeq(t, Len(Token(t)) + 1, Len(t)))

Contains(s, c) == \E i \in 1..Len(s) : s[i] = c

\* the change parser with the sign taken from the rise glyph only
parse_change_field_UpOnly(s) ==
    LET t == strip(s) IN
    IF t = <<>> \/ t = <<"-">> THEN None
    ELSE LET parts == split(t)
             diff_part == IF Len(parts) = 1 THEN parts[1] ELSE parts[2]
             sign == IF Contains(diff_part, UpGlyph) THEN 1 ELSE 0 - 1
             digits == OnlyDigits(RemoveChar(diff_part, ","))
         IN IF digits = <<>> THEN None ELSE Some(sign * DigitsToInt(digits))

\* the change parser with a delta of 0 for a delta token without digits
parse_change_field_ZeroWithoutDigits(s) ==
    LET t == strip(s) IN
    IF t = <<>> \/ t = <<"-">> THEN None
    ELSE LET parts == split(t)
             diff_part == IF Len(parts) = 1 THEN parts[1] ELSE parts[2]
             sign == IF Contains(diff_part, DownGlyph) THEN 0 - 1 ELSE 1
             digits == OnlyDigits(RemoveChar(diff_part, ","))
         IN IF digits = <<>> THEN Some(0) ELSE Some(sign * DigitsToInt(digits))

\* parse_change_field
parse_change_field(s) ==
    LET t == strip(s) IN
    IF t = <<>> \/ t = <<"-">> THEN None
    ELSE LET parts == split(t)
             diff_part == IF Len(parts) = 1 THEN parts[1] ELSE parts[2]
             sign == IF Contains(diff_part, DownGlyph) THEN 0 - 1 ELSE 1
             digits == OnlyDigits(RemoveChar(diff_part, ","))
         IN IF digits = <<>> THEN None ELSE Some(sign * DigitsToInt(digits))

\* str(n) for an integer n
RECURSIVE NatToStr(_)
NatToStr(n) ==
    IF n < 10 THEN <<CHOOSE c \in Digits : DigitVal(c) = n>>
    ELSE NatToStr(n \div 10) \o <<CHOOSE c \in Digits : DigitVal(c) = n % 10>>

str(n) == IF n < 0 THEN <<"-">> \o NatToStr(0 - n) ELSE NatToStr(n)

\* m.group(0) of re.search(r"-?\d+(?:\.\d+)?", s), or None
share_match(s) ==
    LET m == SearchNumber(s) IN
    IF IsNone(m) THEN None
    ELSE Some((IF Val(m).neg THEN <<"-">> ELSE <<>>) \o Val(m).int
              \o (IF Val(m).frac = <<>> THEN <<>> ELSE <<".">> \o Val(m).frac))

\* normalize_row: the six cells of the normalized row, or None
normalize_row(raw_row) ==
    LET row == [i \in 1..Len(raw_row) |-> strip(raw_row[i])]
        off == IF Len(row) >= 7 THEN 1 ELSE 0
    IN IF Len(row) < 6 THEN None
       ELSE LET rank == row[1]
                model_name == row[2 + off]
                sales_units == parse_int_from_str(row[3 + off])
                share == share_match(RemoveChar(row[4 + off], ","))
                mom_diff == parse_change_field(row[5 + off])
                yoy_diff == parse_change_field(row[6 + off])
            IN IF rank = <<>> \/ model_name = <<>> \/ IsNone(sales_units) THEN None
               ELSE Some(<< rank, model_name, str(Val(sales_units)),
                            IF IsNone(share) THEN <<>> ELSE Val(share),
                            IF IsNone(mom_diff) THEN <<>> ELSE str(Val(mom_diff)),
                            IF IsNone(yoy_diff) THEN <<>> ELSE str(Val(yoy_diff)) >>)

----------------------------------------------------------------------------
(* Change cells through parse_change_field *)

MaxCellLen == 4

ChangeAlphabet == {"1", "0", " ", ",", UpGlyph, DownGlyph}

Cell_9118_697_Up == <<"9", "1", "1", "8", " ", "6", "9", "7", UpGlyph>>

Cell_6578_351_Down == <<"6", "5", "7", "8", " ", "3", "5", "1", DownGlyph>>

Cell_697_Up == <<"6", "9", "7", UpGlyph>>

\* the change cells of a raw row
ChangeCells ==
    SeqsUpTo(ChangeAlphabet, MaxCellLen)
        \cup {Cell_9118_697_Up, Cell_6578_351_Down, Cell_697_Up, <<"-">>}

ChangeUnchanged ==
    <<car_model, car_model_image, model_monthly_sales, model_monthly_interest,
      stats, nops, input, idx, snap, proc>>

\* mom_diff = parse_change_field(mom_str)
ParseChange ==
    /\ phase = "cell"
    /\ last' = parse_change_field(input)
    /\ phase' = "parsed"
    /\ UNCHANGED ChangeUnchanged

InitChange ==
    /\ car_model = <<>>
    /\ car_model_image = <<>>
    /\ model_monthly_sales = <<>>
    /\ model_monthly_interest = <<>>
    /\ stats = ZeroSalesStats
    /\ last = None
    /\ nops = 0
    /\ phase = "cell"
    /\ input \in ChangeCells
    /\ idx = 0
    /\ snap = <<>>
    /\ proc = <<>>

NextChange == ParseChange

\* parse_change_field applied to a change cell
SpecChange == InitChange /\ [][NextChange]_vars

\* the delta token of a cell of one or two tokens: the only one, or the second
DeltaToken(cell) == split(cell)[Len(split(cell))]

\* C17: delta parsing rule. For a cell of one or two tokens whose delta token
\* (the only token, or the second of two) holds a digit, the result is the
\* integer of the digits of the delta token, negative exactly when the token
\* holds the down glyph and the integer is not 0, positive otherwise;
\* '9118 697U' gives 697, '6578 351D' gives -351 and '697U' gives 697.
C17_DeltaParsing ==
    phase = "parsed" =>
        /\ (Len(split(input)) \in {1, 2} /\ OnlyDigits(DeltaToken(input)) # <<>>) =>
              /\ ~IsNone(last)
              /\ Val(last) = IF Contains(DeltaToken(input), DownGlyph)
                             THEN 0 - DigitsToInt(OnlyDigits(DeltaToken(input)))
                             ELSE DigitsToInt(OnlyDigits(DeltaToken(input)))
        /\ input = Cell_9118_697_Up => last = Some(697)
        /\ input = Cell_6578_351_Down => last = Some(0 - 351)
        /\ input = Cell_697_Up => last = Some(697)

\* a cell of two tokens with the down glyph in the second and digits in both
\* has been parsed to a negative delta
C17_Witness ==
    /\ phase = "parsed"
    /\ Len(split(input)) = 2
    /\ OnlyDigits(split(input)[1]) # <<>>
    /\ Contains(DeltaToken(input), DownGlyph)
    /\ ~IsNone(last) /\ Val(last) < 0

----------------------------------------------------------------------------
(* A sales file through normalize_folder and the sales loader *)

Raw_a_5 == << <<"1">>, <<"a">>, <<"5">>, <<"2", ".", "5", "%">>, <<>>, <<>> >>

Raw_b_7_Crawler == << <<"2">>, <<>>, <<"b">>, <<"1", ",", "7">>, <<>>, <<"-">>, <<"3", DownGlyph>> >>

Raw_b_7_Short == << <<"1">>, <<"b">>, <<"7">> >>

Raw_b_NoDigit == << <<"1">>, <<"b">>, <<"x">>, <<>>, <<>>, <<>> >>

Raw_a_9_FiveCells == << <<"1">>, <<"a">>, <<"9">>, <<>>, <<>> >>

\* the rows of a sales CSV of a brand folder, header apart
RawRows == {Raw_a_5, Raw_b_7_Crawler, Raw_b_7_Short, Raw_b_NoDigit, Raw_a_9_FiveCells}

MaxRawRows == 2

\* a file of the folder: <stem>.csv (raw) or <stem>_normalized.csv (normalized)
RawFiles == [kind : {"raw", "normalized"}, rows : SeqsUpTo(RawRows, MaxRawRows)]

\* normalized_rows of normalize_folder for the rows of one file
RECURSIVE normalized_rows(_)
normalized_rows(rows) ==
    IF rows = <<>> THEN <<>>
    ELSE IF Head(rows) = <<>> \/ IsNone(normalize_row(Head(rows)))
    THEN normalized_rows(Tail(rows))
    ELSE <<Val(normalize_row(Head(rows)))>> \o normalized_rows(Tail(rows))

\* normalize_folder for one file: the rows of <stem>_normalized.csv after it,
\* None when there is no such file. An empty result writes nothing, so a file
\* that had that name keeps its rows.
normalize_folder(file) ==
    IF normalized_rows(file.rows) = <<>>
    THEN IF file.kind = "normalized" THEN Some(file.rows) ELSE None
    ELSE Some(normalized_rows(file.rows))

\* csv.DictReader under the header rank, model, sales, share, mom, yoy: the
\* cells of a row by position, a missing cell read as empty
DictRow(cells) ==
    SalesCell(IF Len(cells) >= 2 THEN cells[2] ELSE <<>>,
              IF Len(cells) >= 3 THEN cells[3] ELSE <<>>,
              IF Len(cells) >= 4 THEN cells[4] ELSE <<>>)

\* the registry with the two models of the folder
FolderModels == << NewCarModel(1, Hyundai, <<"a">>), NewCarModel(2, Hyundai, <<"b">>) >>

\* normalize_folder(folder_path) on the file of the folder
NormalizeFolder ==
    /\ phase = "raw"
    /\ phase' = "normalized"
    /\ proc' = normalize_folder(snap)
    /\ UNCHANGED <<car_model, car_model_image, model_monthly_sales,
                   model_monthly_interest, stats, last, nops, input, idx, snap>>

\* load_danawa_sales_to_db.run_loader on the folder: the file
\* hyundai_model_sales_2024_01_00_normalized.csv when there is one
FolderStartSales ==
    /\ phase = "normalized"
    /\ phase' = "sales"
    /\ stats' = ZeroSalesStats
    /\ input' = IF IsNone(proc) THEN <<>>
                ELSE <<[brand_code |-> "hyundai",
                        sales_rows |-> load_normalized_sales_csv(
                            [brand_code |-> "hyundai", year |-> Y2024, month |-> <<"0", "1">>,
                             rows |-> [i \in 1..Len(Val(proc)) |-> DictRow(Val(proc)[i])]])]>>
    /\ idx' = <<1, 1>>
    /\ nops' = 0
    /\ UNCHANGED <<car_model, car_model_image, model_monthly_sales,
                   model_monthly_interest, last, snap, proc>>

FolderSalesRow == phase = "sales" /\ ProcessSalesRow

FolderSalesFile == phase = "sales" /\ NextSalesFile

FolderEndSales == phase = "sales" /\ EndSales

InitFolder ==
    /\ car_model = FolderModels
    /\ car_model_image = <<>>
    /\ model_monthly_sales = <<>>
    /\ model_monthly_interest = <<>>
    /\ stats = ZeroSalesStats
    /\ last = NoLast
    /\ nops = 0
    /\ phase = "raw"
    /\ input = <<>>
    /\ idx = <<1, 1>>
    /\ snap \in RawFiles
    /\ proc = None

NextFolder ==
    \/ NormalizeFolder
    \/ FolderStartSales
    \/ FolderSalesRow
    \/ FolderSalesFile
    \/ FolderEndSales

\* one sales file normalized and then loaded
SpecFolder == InitFolder /\ [][NextFolder]_vars

\* the volume cell of a raw row of six cells or more
VolumeCell(raw_row) == IF Len(raw_row) >= 7 THEN raw_row[4] ELSE raw_row[3]

Rejected(raw_row) ==
    Len(raw_row) < 6 \/ OnlyDigits(VolumeCell(raw_row)) = <<>>

\* C16: rejection. normalize_row returns nothing for a row of fewer than 6
\* cells and for a row whose volume cell holds no digit; the volume of a row
\* it returns is the text of an integer >= 0; and every stored sales fact has
\* the model and the volume of a row of the file that normalize_row returns,
\* so no rejected row produces a stored fact.
C16_Rejection ==
    /\ \A i \in 1..Len(snap.rows) :
          /\ Rejected(snap.rows[i]) => IsNone(normalize_row(snap.rows[i]))
          /\ ~IsNone(normalize_row(snap.rows[i]))
                => AllDigits(Val(normalize_row(snap.rows[i]))[3])
    /\ \A k \in DOMAIN model_monthly_sales :
          \E i \in 1..Len(snap.rows) :
             /\ ~IsNone(normalize_row(snap.rows[i]))
             /\ Val(normalize_row(snap.rows[i]))[2] = car_model[k[1]].model_name_kr
             /\ int(Val(normalize_row(snap.rows[i]))[3]) = Some(model_monthly_sales[k].sales_units)

----------------------------------------------------------------------------
(* The two sales loaders of the repository on one store:                   *)
(* load_danawa_sales_to_db.py and load_danawa_sales_from_normalized.py     *)

\* load_sales: the records of one file, (model_name, sales_units)
RECURSIVE ReadFromNormalized(_, _, _)
ReadFromNormalized(rows, brand_code, month_date) ==
    IF rows = <<>> THEN <<>>
    ELSE LET r == Head(rows)
             model_name == strip(r.model_name)
         IN IF model_name = <<>>
            THEN ReadFromNormalized(Tail(rows), brand_code, month_date)
            ELSE <<[brand_code |-> brand_code, month |-> month_date,
                    model_name |-> model_name,
                    sales_units |-> candidate_sales(strip(r.sales)),
                    share_ratio |-> None]>>
                 \o ReadFromNormalized(Tail(rows), brand_code, month_date)

\* build_model_id_map(conn).get((brand_name, model_name)): the model_id of a
\* row whose stripped brand and name are the key (the last such row fetchall
\* returns, in an order the SELECT does not fix), None without such a row
model_id_map_get(cm, brand_name, model_name) ==
    fetchone({i \in 1..Len(cm) : strip(cm[i].brand_name) = brand_name
                                 /\ strip(cm[i].model_name_kr) = model_name})

\* the VALUES of the INSERT of load_sales
FromNormalizedFact(sales_units) ==
    [sales_units |-> sales_units, market_total_units |-> None,
     adoption_rate |-> None, source |-> "DANAWA"]

\* the file of the adoption-rate example: volumes 100, 150, 250, no share
ExampleFile ==
    [brand_code |-> "hyundai", year |-> Y2024, month |-> <<"0", "1">>,
     rows |-> << SalesCell(<<"a">>, <<"1", "0", "0">>, <<>>),
                 SalesCell(<<"b">>, <<"1", "5", "0">>, <<>>),
                 SalesCell(<<"c">>, <<"2", "5", "0">>, <<>>) >>]

\* sales files of the brand folders
LoaderFiles ==
    { ExampleFile,
      [brand_code |-> "hyundai", year |-> Y2024, month |-> <<"0", "1">>,
       rows |-> << SalesCell(<<"a">>, <<"1", ",", "5">>, <<"2", ".", "5", "%">>),
                   SalesCell(<<"d">>, <<"5">>, <<>>) >>],
      [brand_code |-> "kia", year |-> Y2024, month |-> <<"0", "1">>,
       rows |-> << SalesCell(<<" ", "a", " ">>, <<"0">>, <<>>),
                   SalesCell(<<"a">>, <<"x">>, <<>>) >>],
      [brand_code |-> "kia", year |-> Y2024, month |-> <<"0", "2">>,
       rows |-> << SalesCell(<<"a">>, <<"0">>, <<"-", "1", ".", "5", " ", "%">>) >>] }

MaxLoaderFiles == 2

MaxLoaderRuns == 2

\* the registry of the loaders: three models of hyundai, one of kia
LoaderModels ==
    << NewCarModel(1, Hyundai, <<"a">>), NewCarModel(2, Hyundai, <<"b">>),
       NewCarModel(3, Hyundai, <<"c">>), NewCarModel(4, Kia, <<"a">>) >>

\* what is remembered of the record that wrote a stored row: the loader, the
\* sum of the units of the records of its file, and its share
WriterOf(loader, file, sr) ==
    [loader |-> loader,
     total |-> SumSeq([i \in 1..Len(file.sales_rows) |-> file.sales_rows[i].sales_units]),
     share_ratio |-> sr.share_ratio]

LoadersUnchanged == <<car_model, car_model_image, model_monthly_interest, proc>>

\* run_loader of load_danawa_sales_to_db.py (loader "to_db") or load_sales of
\* load_danawa_sales_from_normalized.py (loader "from_normalized"):
\* engine.begin() and the files of the brand folders
LoadersStart(loader, files) ==
    /\ phase = "idle"
    /\ snap.runs < MaxLoaderRuns
    /\ phase' = "sales"
    /\ stats' = ZeroSalesStats
    /\ input' = [f \in 1..Len(files) |->
                    [brand_code |-> files[f].brand_code,
                     sales_rows |->
                        IF loader = "to_db" THEN load_normalized_sales_csv(files[f])
                        ELSE ReadFromNormalized(files[f].rows, files[f].brand_code,
                                 extract_month_date_from_filename(files[f].year, files[f].month))]]
    /\ idx' = <<1, 1>>
    /\ nops' = 0
    /\ snap' = [runs |-> snap.runs + 1, loader |-> loader]
    /\ UNCHANGED <<model_monthly_sales, last>>
    /\ UNCHANGED LoadersUnchanged

\* process_sales_for_brand: one SalesRow of the current file
LoadersToDbRow ==
    /\ phase = "sales" /\ snap.loader = "to_db"
    /\ idx[1] <= Len(input)
    /\ idx[2] <= Len(input[idx[1]].sales_rows)
    /\ LET file == input[idx[1]]
           sr == file.sales_rows[idx[2]]
       IN \E row \in fetchone(SelectModelByName(car_model,
                         db_brand_name(file.brand_code, sr), sr.model_name)) :
             LET r == process_sales_row(model_monthly_sales, stats, sr,
                                        TotalUnits(file.sales_rows), row) IN
             /\ model_monthly_sales' = r.model_monthly_sales
             /\ stats' = r.stats
             /\ last' = IF IsNone(row) THEN last
                        ELSE Put(last, <<Val(row), sr.month>>, WriterOf("to_db", file, sr))
    /\ idx' = <<idx[1], idx[2] + 1>>
    /\ nops' = nops + 1
    /\ UNCHANGED <<phase, input, snap>>
    /\ UNCHANGED LoadersUnchanged

\* load_sales: one row of the current file
LoadersFromNormalizedRow ==
    /\ phase = "sales" /\ snap.loader = "from_normalized"
    /\ idx[1] <= Len(input)
    /\ idx[2] <= Len(input[idx[1]].sales_rows)
    /\ LET file == input[idx[1]]
           sr == file.sales_rows[idx[2]]
       IN \E model_id \in model_id_map_get(car_model,
                              Val(BRAND_KR_MAP(file.brand_code)), sr.model_name) :
             IF IsNone(model_id)
             THEN /\ stats' = [stats EXCEPT !.total_rows = @ + 1, !.no_model_match = @ + 1]
                  /\ UNCHANGED <<model_monthly_sales, last>>
             ELSE /\ model_monthly_sales' = Put(model_monthly_sales, <<Val(model_id), sr.month>>,
                                                FromNormalizedFact(sr.sales_units))
                  /\ stats' = [stats EXCEPT !.total_rows = @ + 1, !.insert_or_update = @ + 1]
                  /\ last' = Put(last, <<Val(model_id), sr.month>>,
                                 WriterOf("from_normalized", file, sr))
    /\ idx' = <<idx[1], idx[2] + 1>>
    /\ nops' = nops + 1
    /\ UNCHANGED <<phase, input, snap>>
    /\ UNCHANGED LoadersUnchanged

\* either loader: the next file
LoadersNextFile ==
    /\ phase = "sales"
    /\ idx[1] <= Len(input)
    /\ idx[2] > Len(input[idx[1]].sales_rows)
    /\ idx' = <<idx[1] + 1, 1>>
    /\ UNCHANGED <<model_monthly_sales, stats, last, nops, phase, input, snap>>
    /\ UNCHANGED LoadersUnchanged

\* either loader: the end of the with block, commit
LoadersEnd ==
    /\ phase = "sales"
    /\ idx[1] > Len(input)
    /\ phase' = "idle"
    /\ UNCHANGED <<model_monthly_sales, stats, last, nops, input, idx, snap>>
    /\ UNCHANGED LoadersUnchanged

InitLoaders ==
    /\ car_model = LoaderModels
    /\ car_model_image = <<>>
    /\ model_monthly_sales \in SalesTables
    /\ model_monthly_interest = <<>>
    /\ stats = ZeroSalesStats
    /\ last = [k \in DOMAIN model_monthly_sales |->
                  [loader |-> "to_db", total |-> 9, share_ratio |-> None]]
    /\ nops = 0
    /\ phase = "idle"
    /\ input = <<>>
    /\ idx = <<1, 1>>
    /\ snap = [runs |-> 0, loader |-> "none"]
    /\ proc = <<>>

\* runs of either sales loader, in any order
NextLoaders ==
    \/ \E files \in SeqsUpTo(LoaderFiles, MaxLoaderFiles) : LoadersStart("to_db", files)
    \/ \E files \in SeqsUpTo(LoaderFiles, MaxLoaderFiles) :
          LoadersStart("from_normalized", files)
    \/ LoadersToDbRow
    \/ LoadersFromNormalizedRow
    \/ LoadersNextFile
    \/ LoadersEnd

SpecLoaders == InitLoaders /\ [][NextLoaders]_vars

\* the adoption rate the rule gives a fact, from the share of its record
RuleRate(fact, share_ratio) ==
    IF ~IsNone(share_ratio) THEN share_ratio
    ELSE IF ~IsNone(fact.market_total_units) /\ Val(fact.market_total_units) # 0
    THEN Some(Fraction(fact.sales_units, Val(fact.market_total_units)))
    ELSE None

\* C18: adoption-rate rule. Every fact written by process_sales_for_brand has
\* as adoption_rate the share of its record (percent as a ratio) when the
\* record has one, otherwise sales_units / market_total_units when
\* market_total_units is not zero, otherwise NULL.
C18_AdoptionRateRule ==
    \A k \in DOMAIN model_monthly_sales :
        last[k].loader = "to_db" =>
            model_monthly_sales[k].adoption_rate
                = RuleRate(model_monthly_sales[k], last[k].share_ratio)

\* a record of 15 units with share 2.5% in a file of 20 units is stored with
\* adoption rate 1/40 and not 15/20
C18_Witness ==
    /\ <<1, D_2024_01_01>> \in DOMAIN model_monthly_sales
    /\ last[<<1, D_2024_01_01>>].loader = "to_db"
    /\ model_monthly_sales[<<1, D_2024_01_01>>].sales_units = 15
    /\ model_monthly_sales[<<1, D_2024_01_01>>].market_total_units = Some(20)
    /\ model_monthly_sales[<<1, D_2024_01_01>>].adoption_rate = Some([num |-> 1, den |-> 40])

\* C19 as stated: every fact written by process_sales_for_brand has
\* market_total_units equal to the sum of the units of the records of its file.
C19_MarketTotalIsBatchSum ==
    \A k \in DOMAIN model_monthly_sales :
        last[k].loader = "to_db" =>
            model_monthly_sales[k].market_total_units = Some(last[k].total)

\* C19: batch-local market total. Every fact written by
\* process_sales_for_brand has market_total_units equal to the sum of the units
\* of the records of its own file when that sum is not zero, and NULL when it
\* is zero; with volumes 100, 150, 250 and no share, market_total_units is 500
\* and adoption_rate is volume / 500.
C19_MarketTotalIsNonZeroBatchSum ==
    \A k \in DOMAIN model_monthly_sales :
        last[k].loader = "to_db" =>
            /\ model_monthly_sales[k].market_total_units
                  = IF last[k].total # 0 THEN Some(last[k].total) ELSE None
            /\ (last[k].total = 500 /\ IsNone(last[k].share_ratio)) =>
                  /\ model_monthly_sales[k].market_total_units = Some(500)
                  /\ model_monthly_sales[k].adoption_rate
                        = Some(Fraction(model_monthly_sales[k].sales_units, 500))

\* the file of volumes 100, 150, 250 has been loaded in a run of two files:
\* its three facts have total 500 and rates 1/5, 3/10, 1/2
C19_Witness ==
    /\ phase = "idle" /\ Len(input) = 2
    /\ \A m \in 1..3 : /\ <<m, D_2024_01_01>> \in DOMAIN model_monthly_sales
                       /\ last[<<m, D_2024_01_01>>].loader = "to_db"
                       /\ model_monthly_sales[<<m, D_2024_01_01>>].market_total_units = Some(500)
    /\ model_monthly_sales[<<1, D_2024_01_01>>].adoption_rate = Some([num |-> 1, den |-> 5])
    /\ model_monthly_sales[<<2, D_2024_01_01>>].adoption_rate = Some([num |-> 3, den |-> 10])
    /\ model_monthly_sales[<<3, D_2024_01_01>>].adoption_rate = Some([num |-> 1, den |-> 2])

\* C20: no truncated derived fields. In every state, every stored fact whose
\* file had a non-zero total of units has a market_total_units and an
\* adoption_rate that follows the adoption-rate rule, whichever sales loader
\* wrote it.
C20_NoTruncatedDerivedFields ==
    \A k \in DOMAIN model_monthly_sales :
        last[k].total # 0 =>
            /\ ~IsNone(model_monthly_sales[k].market_total_units)
            /\ ~IsNone(model_monthly_sales[k].adoption_rate)
            /\ model_monthly_sales[k].adoption_rate
                  = RuleRate(model_monthly_sales[k], last[k].share_ratio)

\* the car_model rows a metadata row of a brand directory matches
MatchedModels(cm, brand_code, mr) ==
    SelectModelByName(cm, db_brand_name(brand_code, mr), mr.model_name)

----------------------------------------------------------------------------
(* Metadata runs over the rows of one file, each row with the state it     *)
(* found; the run may be repeated on the same file                         *)

MaxEnrichRows == 2

MaxEnrichRuns == 2

\* the rows of a metadata file: rows of the registered models with every kind
\* of detail URL, one of them with an image, and rows of an unregistered model
EnrichRows ==
    {mr \in MetaRows :
        /\ mr.brand_code \in BrandCodes
        /\ mr.detail_url # Some(Url_model1)
        /\ mr.model_name \in ModelNames =>
              (~IsNone(mr.image_url) => (mr.brand_code = "hyundai" /\ IsNone(mr.detail_url)))
        /\ mr.model_name \notin ModelNames =>
              (mr.brand_code = "hyundai" /\ mr.detail_url = Some(Url_Model1))}

EnrichUnchanged == <<model_monthly_sales, model_monthly_interest, last, nops, proc>>

\* run_loader: engine.begin(), fresh counters, the rows load_meta_csv returns;
\* a later run reads the same file
EnrichStart(rows) ==
    /\ phase = "idle"
    /\ snap.runs < MaxEnrichRuns
    /\ snap.runs > 0 => rows = input
    /\ phase' = "meta"
    /\ stats' = ZeroMetaStats
    /\ input' = rows
    /\ idx' = 1
    /\ snap' = [snap EXCEPT !.runs = @ + 1, !.row = None]
    /\ UNCHANGED <<car_model, car_model_image>>
    /\ UNCHANGED EnrichUnchanged

\* process_meta_for_brand: the body of the loop for the next row of the file
EnrichRow ==
    /\ phase = "meta"
    /\ idx <= Len(input)
    /\ LET mr == input[idx] IN
       \E row \in fetchone(MatchedModels(car_model, mr.brand_code, mr)),
          conflict \in ConflictRows(car_model, mr) :
          LET r == process_meta_row(car_model, car_model_image, stats, mr, row, conflict) IN
          /\ car_model' = r.car_model
          /\ car_model_image' = r.car_model_image
          /\ stats' = r.stats
          /\ snap' = [snap EXCEPT !.row = Some(mr), !.car_model = car_model,
                                  !.car_model_image = car_model_image,
                                  !.stats = stats]
    /\ idx' = idx + 1
    /\ UNCHANGED <<phase, input>>
    /\ UNCHANGED EnrichUnchanged

\* run_loader: the end of the with block; the registry of the first run is
\* remembered
EnrichEnd ==
    /\ phase = "meta"
    /\ idx > Len(input)
    /\ phase' = "idle"
    /\ snap' = [snap EXCEPT !.first = IF snap.runs = 1 THEN car_model ELSE @]
    /\ UNCHANGED <<car_model, car_model_image, stats, input, idx>>
    /\ UNCHANGED EnrichUnchanged

InitEnrich ==
    /\ car_model \in {RegisteredModels, EnrichedModels}
    /\ car_model_image = <<>>
    /\ model_monthly_sales = <<>>
    /\ model_monthly_interest = <<>>
    /\ stats = ZeroMetaStats
    /\ last = NoLast
    /\ nops = 0
    /\ phase = "idle"
    /\ input = <<>>
    /\ idx = 1
    /\ snap = [runs |-> 0, row |-> None, car_model |-> car_model,
               car_model_image |-> <<>>, stats |-> ZeroMetaStats, first |-> car_model]
    /\ proc = <<>>

NextEnrich ==
    \/ \E rows \in SeqsUpTo(EnrichRows, MaxEnrichRows) : EnrichStart(rows)
    \/ EnrichRow
    \/ EnrichEnd

\* metadata runs over one file, repeated
SpecEnrich == InitEnrich /\ [][NextEnrich]_vars

\* the row the last step processed matched car_model row i of the state it found
LastRowMatched(i) ==
    /\ ~IsNone(snap.row)
    /\ i \in MatchedModels(snap.car_model, Val(snap.row).brand_code, Val(snap.row))

\* C21: non-destructive partial update. A metadata row that yields no id (no
\* detail URL, or a URL without a numeric Model parameter) leaves the
\* danawa_model_id of the car_model row it matches unchanged, one without a
\* detail URL leaves its danawa_model_url unchanged, and no row turns a
\* non-null danawa_model_id or danawa_model_url into NULL.
C21_PartialUpdate ==
    /\ \A i \in 1..Len(car_model) :
          LastRowMatched(i) =>
              /\ IsNone(extract_model_id_from_url(Val(snap.row).detail_url))
                    => car_model[i].danawa_model_id = snap.car_model[i].danawa_model_id
              /\ (IsNone(Val(snap.row).detail_url) \/ Val(Val(snap.row).detail_url) = <<>>)
                    => car_model[i].danawa_model_url = snap.car_model[i].danawa_model_url
    /\ \A i \in 1..Len(snap.car_model) :
          /\ ~IsNone(snap.car_model[i].danawa_model_id) => ~IsNone(car_model[i].danawa_model_id)
          /\ ~IsNone(snap.car_model[i].danawa_model_url) => ~IsNone(car_model[i].danawa_model_url)

\* a row without detail URL has acted on a model that holds an id and a URL,
\* and both are still stored
C21_Witness ==
    \E i \in 1..Len(car_model) :
        /\ LastRowMatched(i)
        /\ IsNone(Val(snap.row).detail_url)
        /\ ~IsNone(snap.car_model[i].danawa_model_id)
        /\ ~IsNone(snap.car_model[i].danawa_model_url)
        /\ car_model[i] = snap.car_model[i]

\* the last row matched car_model row i and carried, with a detail URL, the id
\* that row j of another model held
LastRowCollided(i, j) ==
    /\ LastRowMatched(i)
    /\ j \in 1..Len(snap.car_model) /\ j # i
    /\ ~IsNone(extract_model_id_from_url(Val(snap.row).detail_url))
    /\ snap.car_model[j].danawa_model_id = extract_model_id_from_url(Val(snap.row).detail_url)

\* C22: on an id collision the URL is still written. When a metadata row of
\* model Y carries the danawa_model_id of another model and a detail URL, Y's
\* danawa_model_url is that URL, Y's danawa_model_id is what it was, the
\* owner's row is unchanged, and the collision is counted.
C22_CollisionWritesUrl ==
    \A i, j \in 1..Len(car_model) :
        LastRowCollided(i, j) =>
            /\ car_model[i].danawa_model_url = Val(snap.row).detail_url
            /\ car_model[i].danawa_model_id = snap.car_model[i].danawa_model_id
            /\ car_model[j] = snap.car_model[j]
            /\ stats.danawa_id_conflict = snap.stats.danawa_id_conflict + 1

\* a colliding row has replaced the URL of its model
C22_Witness ==
    \E i, j \in 1..Len(car_model) :
        /\ LastRowCollided(i, j)
        /\ car_model[i].danawa_model_url # snap.car_model[i].danawa_model_url
        /\ ~IsNone(snap.car_model[j].danawa_model_url)

\* the last row matched no car_model row of the state it found
LastRowUnmatched ==
    /\ ~IsNone(snap.row)
    /\ MatchedModels(snap.car_model, Val(snap.row).brand_code, Val(snap.row)) = {}

\* C23: a metadata row that matches no model is a non-fatal no-op. car_model
\* and car_model_image are as the row found them, no_model_match is one more,
\* no other outcome is counted, the run goes on, and a run that has ended has
\* processed every row of its file.
C23_NoMatchNoOp ==
    /\ LastRowUnmatched =>
          /\ car_model = snap.car_model
          /\ car_model_image = snap.car_model_image
          /\ stats = [snap.stats EXCEPT !.total_rows = @ + 1, !.no_model_match = @ + 1]
          /\ phase = "meta" => idx <= Len(input) + 1
    /\ (phase = "idle" /\ snap.runs > 0) => stats.total_rows = Len(input)
    /\ (phase = "meta" /\ Len(input) > 0) => (idx = stats.total_rows + 1)

\* a run has ended whose first row matched no model and whose second row
\* updated one
C23_Witness ==
    /\ phase = "idle" /\ Len(input) = 2
    /\ MatchedModels(car_model, input[1].brand_code, input[1]) = {}
    /\ stats.no_model_match = 1 /\ stats.car_model_updated = 1
    /\ stats.total_rows = 2
    /\ car_model # RegisteredModels

\* C28: re-running enrichment reaches a fixed point. When the rows of a file
\* have been applied a second time in the same order, every car_model row has
\* the danawa_model_id and danawa_model_url it had after the first time.
C28_RerunFixedPoint ==
    (phase = "idle" /\ snap.runs >= 2) =>
        \A i \in 1..Len(car_model) :
            /\ car_model[i].danawa_model_id = snap.first[i].danawa_model_id
            /\ car_model[i].danawa_model_url = snap.first[i].danawa_model_url

----------------------------------------------------------------------------
(* A sales run, each record with the table and the counters it found *)

MaxRowFiles == 2

MaxRowRuns == 1

\* files with an unregistered model before a registered one, with two records
\* of one model, with a zero volume, and of a second month
RowFiles ==
    { [brand_code |-> "hyundai", year |-> Y2024, month |-> <<"0", "1">>,
       rows |-> << SalesCell(<<"z">>, <<"3">>, <<>>),
                   SalesCell(<<"a">>, <<"1", "0">>, <<>>) >>],
      [brand_code |-> "hyundai", year |-> Y2024, month |-> <<"0", "1">>,
       rows |-> << SalesCell(<<"a">>, <<"1", ",", "5">>, <<"2", ".", "5", "%">>),
                   SalesCell(<<"a">>, <<"5">>, <<>>) >>],
      [brand_code |-> "kia", year |-> Y2024, month |-> <<"0", "1">>,
       rows |-> << SalesCell(<<"a">>, <<"0">>, <<>>) >>],
      [brand_code |-> "hyundai", year |-> Y2024, month |-> <<"0", "2">>,
       rows |-> << SalesCell(<<"a">>, <<"7">>, <<>>),
                   SalesCell(<<"z">>, <<"4">>, <<>>) >>] }

RowsUnchanged == <<car_model, car_model_image, model_monthly_interest, proc>>

NoRowLog ==
    [row |-> None, brand_code |-> "", total |-> 0,
     model_monthly_sales |-> <<>>, stats |-> ZeroSalesStats]

\* run_loader: engine.begin(), fresh counters, the files of the run
RowsStart(files) ==
    /\ phase = "idle"
    /\ snap.runs < MaxRowRuns
    /\ phase' = "sales"
    /\ stats' = ZeroSalesStats
    /\ input' = [f \in 1..Len(files) |->
                    [brand_code |-> files[f].brand_code,
                     sales_rows |-> load_normalized_sales_csv(files[f])]]
    /\ idx' = <<1, 1>>
    /\ snap' = [runs |-> snap.runs + 1]
    /\ last' = NoRowLog
    /\ nops' = 0
    /\ UNCHANGED model_monthly_sales
    /\ UNCHANGED RowsUnchanged

\* process_sales_for_brand: one SalesRow of the current file
RowsSalesRow ==
    /\ phase = "sales"
    /\ idx[1] <= Len(input)
    /\ idx[2] <= Len(input[idx[1]].sales_rows)
    /\ LET file == input[idx[1]]
           sr == file.sales_rows[idx[2]]
       IN /\ \E row \in fetchone(SelectModelByName(car_model,
                            db_brand_name(file.brand_code, sr), sr.model_name)) :
                LET r == process_sales_row(model_monthly_sales, stats, sr,
                                           TotalUnits(file.sales_rows), row) IN
                /\ model_monthly_sales' = r.model_monthly_sales
                /\ stats' = r.stats
          /\ last' = [row |-> Some(sr), brand_code |-> file.brand_code,
                      total |-> SumSeq([i \in 1..Len(file.sales_rows) |->
                                           file.sales_rows[i].sales_units]),
                      model_monthly_sales |-> model_monthly_sales, stats |-> stats]
    /\ idx' = <<idx[1], idx[2] + 1>>
    /\ nops' = nops + 1
    /\ UNCHANGED <<phase, input, snap>>
    /\ UNCHANGED RowsUnchanged

\* process_sales_for_brand: the next file
RowsNextFile ==
    /\ phase = "sales"
    /\ idx[1] <= Len(input)
    /\ idx[2] > Len(input[idx[1]].sales_rows)
    /\ idx' = <<idx[1] + 1, 1>>
    /\ UNCHANGED <<model_monthly_sales, stats, last, nops, phase, input, snap>>
    /\ UNCHANGED RowsUnchanged

\* run_loader: the end of the with block, commit
RowsEnd ==
    /\ phase = "sales"
    /\ idx[1] > Len(input)
    /\ phase' = "idle"
    /\ UNCHANGED <<model_monthly_sales, stats, last, nops, input, idx, snap>>
    /\ UNCHANGED RowsUnchanged

InitRows ==
    /\ car_model = RegisteredModels
    /\ car_model_image = <<>>
    /\ model_monthly_sales \in SalesTables
    /\ model_monthly_interest = <<>>
    /\ stats = ZeroSalesStats
    /\ last = NoRowLog
    /\ nops = 0
    /\ phase = "idle"
    /\ input = <<>>
    /\ idx = <<1, 1>>
    /\ snap = [runs |-> 0]
    /\ proc = <<>>

NextRows ==
    \/ \E files \in SeqsUpTo(RowFiles, MaxRowFiles) : RowsStart(files)
    \/ RowsSalesRow
    \/ RowsNextFile
    \/ RowsEnd

\* sales runs, record by record
SpecRows == InitRows /\ [][NextRows]_vars

\* the car_model rows the record of the last step matched
LastRecordModels ==
    IF IsNone(last.row) THEN {}
    ELSE SelectModelByName(car_model, db_brand_name(last.brand_code, Val(last.row)),
                           Val(last.row).model_name)

\* the records of the run that match a car_model row, as (file, record)
MatchedRecords ==
    {p \in UNION {{<<f, i>> : i \in 1..Len(input[f].sales_rows)} : f \in 1..Len(input)} :
        SelectModelByName(car_model,
            db_brand_name(input[p[1]].brand_code, input[p[1]].sales_rows[p[2]]),
            input[p[1]].sales_rows[p[2]].model_name) # {}}

\* C24: an unresolved record is a recoverable skip. A record that matches no
\* car_model row leaves model_monthly_sales as it found it and adds one to
\* no_model_match; and when the run has ended every record of every file was
\* counted and every record that matches a model has its fact stored.
C24_UnmatchedSkipped ==
    /\ (~IsNone(last.row) /\ LastRecordModels = {}) =>
          /\ model_monthly_sales = last.model_monthly_sales
          /\ stats = [last.stats EXCEPT !.total_rows = @ + 1, !.no_model_match = @ + 1]
    /\ (phase = "idle" /\ snap.runs > 0) =>
          /\ stats.total_rows = SumSeq([f \in 1..Len(input) |-> Len(input[f].sales_rows)])
          /\ stats.insert_or_update = Cardinality(MatchedRecords)
          /\ stats.no_model_match = stats.total_rows - stats.insert_or_update
          /\ \A p \in MatchedRecords :
                \E m \in 1..Len(car_model) :
                    <<car_model[m].model_id, input[p[1]].sales_rows[p[2]].month>>
                        \in DOMAIN model_monthly_sales

\* a run has ended whose first file begins with a record of an unregistered
\* model; the record after it and the record of a later file are stored
C24_Witness ==
    /\ phase = "idle" /\ Len(input) = 2
    /\ input[1].sales_rows[1].model_name = <<"z">>
    /\ stats.no_model_match >= 1
    /\ <<1, D_2024_01_01>> \in DOMAIN model_monthly_sales
    /\ model_monthly_sales[<<1, D_2024_01_01>>].sales_units = 10
    /\ <<1, D_2024_02_01>> \in DOMAIN model_monthly_sales

\* C26: one row per key, last write wins. A record that matches model m gives
\* the row of key (m, month) the sales_units, market_total_units,
\* adoption_rate and source of that write, whatever was stored, adds that key
\* when it was absent, and leaves every other row as it was.
C26_LastWriteWins ==
    \A m \in LastRecordModels :
        LET k == <<car_model[m].model_id, Val(last.row).month>>
            t == last.model_monthly_sales
        IN /\ DOMAIN model_monthly_sales = DOMAIN t \cup {k}
           /\ \A j \in DOMAIN t \ {k} : model_monthly_sales[j] = t[j]
           /\ model_monthly_sales[k].sales_units = Val(last.row).sales_units
           /\ model_monthly_sales[k].market_total_units
                 = IF last.total # 0 THEN Some(last.total) ELSE None
           /\ model_monthly_sales[k].adoption_rate
                 = RuleRate(model_monthly_sales[k], Val(last.row).share_ratio)
           /\ model_monthly_sales[k].source = "DANAWA"

\* a record has replaced a stored row whose three values all differed
C26_Witness ==
    \E m \in LastRecordModels :
        LET k == <<car_model[m].model_id, Val(last.row).month>>
            t == last.model_monthly_sales
        IN /\ k \in DOMAIN t
           /\ t[k].sales_units # model_monthly_sales[k].sales_units
           /\ t[k].market_total_units # model_monthly_sales[k].market_total_units
           /\ t[k].adoption_rate # model_monthly_sales[k].adoption_rate
           /\ Cardinality(DOMAIN model_monthly_sales) >= 2

----------------------------------------------------------------------------
(* The four loaders on one store, one row of one run at a step *)

MaxLifeOps == 4

\* candidates: a registered model with a blank, and a new model
LifeCands ==
    { [brand_name |-> Kia, model_name_kr |-> <<"a", " ">>],
      [brand_name |-> Hyundai, model_name_kr |-> <<"b">>] }

\* metadata rows of the two registered models, with an id or without
LifeMetaRows ==
    {mr \in EnrichRows : /\ mr.model_name \in ModelNames
                         /\ IsNone(mr.image_url)
                         /\ mr.detail_url \in {Some(Url_Model1), Some(Url_ModelX)}}

\* the files of a registered and of an unregistered model
LifeSalesFiles ==
    { [brand_code |-> "hyundai", year |-> Y2024, month |-> <<"0", "1">>,
       rows |-> << SalesCell(<<"a">>, <<"1", "0">>, <<>>) >>],
      [brand_code |-> "kia", year |-> Y2024, month |-> <<"0", "1">>,
       rows |-> << SalesCell(<<"z">>, <<"3">>, <<>>) >>] }

LifeNaverRows ==
    << [model_id |-> <<"1">>, date |-> D_2024_01_01, ratio |-> <<"1">>] >>

LifeGoogleRows ==
    << [model_id |-> <<"2">>, month |-> D_2024_02_01, google_trend_index |-> <<"5">>] >>

LifeUnchanged == <<last, phase, input, idx, snap, proc>>

\* upsert_car_model: one candidate
LifeRegister(cand) ==
    /\ nops < MaxLifeOps
    /\ \E existing \in ExistingRows(car_model, cand) :
          car_model' = upsert_candidate(car_model, cand, existing)
    /\ nops' = nops + 1
    /\ UNCHANGED <<car_model_image, model_monthly_sales, model_monthly_interest, stats>>
    /\ UNCHANGED LifeUnchanged

\* process_meta_for_brand: one metadata row
LifeEnrich(mr) ==
    /\ nops < MaxLifeOps
    /\ \E row \in fetchone(MatchedModels(car_model, mr.brand_code, mr)),
          conflict \in ConflictRows(car_model, mr) :
          LET r == process_meta_row(car_model, car_model_image, ZeroMetaStats,
                                    mr, row, conflict) IN
          /\ car_model' = r.car_model
          /\ car_model_image' = r.car_model_image
          /\ stats' = r.stats
    /\ nops' = nops + 1
    /\ UNCHANGED <<model_monthly_sales, model_monthly_interest>>
    /\ UNCHANGED LifeUnchanged

\* process_sales_for_brand: the one record of a file
LifeSales(file) ==
    /\ nops < MaxLifeOps
    /\ LET sales_rows == load_normalized_sales_csv(file)
           sr == sales_rows[1]
       IN \E row \in fetchone(SelectModelByName(car_model,
                         db_brand_name(file.brand_code, sr), sr.model_name)) :
             LET r == process_sales_row(model_monthly_sales, ZeroSalesStats, sr,
                                        TotalUnits(sales_rows), row) IN
             /\ model_monthly_sales' = r.model_monthly_sales
             /\ stats' = r.stats
    /\ nops' = nops + 1
    /\ UNCHANGED <<car_model, car_model_image, model_monthly_interest>>
    /\ UNCHANGED LifeUnchanged

\* load_naver_interest: the one point of a file
LifeNaver ==
    /\ nops < MaxLifeOps
    /\ model_monthly_interest'
          = upsert_naver(model_monthly_interest, load_raw_csv(LifeNaverRows).points[1])
    /\ nops' = nops + 1
    /\ UNCHANGED <<car_model, car_model_image, model_monthly_sales, stats>>
    /\ UNCHANGED LifeUnchanged

\* load_google_trend: the one row of a file
LifeGoogle ==
    /\ nops < MaxLifeOps
    /\ model_monthly_interest'
          = upsert_google(model_monthly_interest, ReadGoogleRows(LifeGoogleRows)[1])
    /\ nops' = nops + 1
    /\ UNCHANGED <<car_model, car_model_image, model_monthly_sales, stats>>
    /\ UNCHANGED LifeUnchanged

InitLife ==
    /\ car_model = RegisteredModels
    /\ car_model_image = <<>>
    /\ model_monthly_sales = <<>>
    /\ model_monthly_interest = <<>>
    /\ stats = ZeroMetaStats
    /\ last = NoLast
    /\ nops = 0
    /\ phase = "idle"
    /\ input = <<>>
    /\ idx = 0
    /\ snap = <<>>
    /\ proc = <<>>

NextLife ==
    \/ \E cand \in LifeCands : LifeRegister(cand)
    \/ \E mr \in LifeMetaRows : LifeEnrich(mr)
    \/ \E file \in LifeSalesFiles : LifeSales(file)
    \/ LifeNaver
    \/ LifeGoogle

\* rows of the four loaders in any order
SpecLife == InitLife /\ [][NextLife]_vars

\* C25: entities are never deleted, merged or re-keyed. Across every step of
\* the candidate, metadata, sales and interest loaders, every car_model row
\* is still there afterwards with the same model_id, brand_name and
\* model_name_kr, and no two rows have become one.
C25_EntitiesKept ==
    [][ /\ Len(car_model') >= Len(car_model)
        /\ \A i \in 1..Len(car_model) :
              /\ car_model'[i].model_id = car_model[i].model_id
              /\ car_model'[i].brand_name = car_model[i].brand_name
              /\ car_model'[i].model_name_kr = car_model[i].model_name_kr
      ]_vars

\* after a candidate was registered and rows of the metadata, sales and
\* interest loaders were stored, the two first models are as they were
C25_Witness ==
    /\ Len(car_model) = 3
    /\ \E i \in 1..2 : ~IsNone(car_model[i].danawa_model_id)
    /\ DOMAIN model_monthly_sales # {}
    /\ DOMAIN model_monthly_interest # {}
    /\ \A i \in 1..2 : /\ car_model[i].model_id = RegisteredModels[i].model_id
                       /\ car_model[i].brand_name = RegisteredModels[i].brand_name
                       /\ car_model[i].model_name_kr = RegisteredModels[i].model_name_kr

----------------------------------------------------------------------------
(* Volume cells through the two parse_int_from_str *)

MaxVolumeLen == 3

\* "u" stands for the unit suffix and any other character
VolumeAlphabet == {"1", "2", ",", " ", "u"}

Cell_12_345_u == <<"1", "2", ",", "3", "4", "5", "u">>

VolumeCells == SeqsUpTo(VolumeAlphabet, MaxVolumeLen) \cup {Cell_12_345_u}

VolumeUnchanged ==
    <<car_model, car_model_image, model_monthly_sales, model_monthly_interest,
      stats, last, nops, input, idx, proc>>

\* sales_units = parse_int_from_str(sales_str), in the normalizer and in the
\* sales loader
ParseVolume ==
    /\ phase = "cell"
    /\ snap' = [normalizer |-> parse_int_from_str(input),
                loader |-> sales_parse_int_from_str(input)]
    /\ phase' = "parsed"
    /\ UNCHANGED VolumeUnchanged

InitVolume ==
    /\ car_model = <<>>
    /\ car_model_image = <<>>
    /\ model_monthly_sales = <<>>
    /\ model_monthly_interest = <<>>
    /\ stats = ZeroSalesStats
    /\ last = None
    /\ nops = 0
    /\ phase = "cell"
    /\ input \in VolumeCells
    /\ idx = 0
    /\ snap = [normalizer |-> None, loader |-> None]
    /\ proc = <<>>

NextVolume == ParseVolume

\* the two parse_int_from_str applied to a volume cell
SpecVolume == InitVolume /\ [][NextVolume]_vars

\* the first maximal run of digits of a text
RECURSIVE FirstDigitRun(_)
FirstDigitRun(s) ==
    IF s = <<>> THEN <<>>
    ELSE IF Head(s) \in Digits THEN DigitRun(s)
    ELSE FirstDigitRun(Tail(s))

\* C27: volume parsing extracts the leading run of digits. For every volume
\* cell, with the commas removed, both parse_int_from_str return the integer
\* of the first maximal run of digits of the cell, and None when the cell
\* holds no digit.
C27_LeadingDigitRun ==
    phase = "parsed" =>
        LET run == FirstDigitRun(RemoveChar(input, ",")) IN
        /\ snap.normalizer = IF run = <<>> THEN None ELSE Some(DigitsToInt(run))
        /\ snap.loader = IF run = <<>> THEN None ELSE Some(DigitsToInt(run))

----------------------------------------------------------------------------
(* A raw row through normalize_row, and its result through it again *)

\* raw rows in the two layouts (six cells, or seven with a blank second one)
RenormRows ==
    LET cells == [volume : {<<"5">>, <<"1", ",", "2", "u">>, <<"u">>},
                  share  : {<<>>, <<"2", ".", "5", "%">>, <<"-", "1", ".", "5", " ", "%">>},
                  mom    : {<<>>, <<"-">>, <<"9", " ", "1", UpGlyph>>, <<"9", " ", "1", DownGlyph>>},
                  yoy    : {<<>>, <<"3", DownGlyph>>}]
    IN {<< <<"1">>, <<"a">>, c.volume, c.share, c.mom, c.yoy >> : c \in cells}
       \cup {<< <<"1">>, <<>>, <<"a">>, c.volume, c.share, c.mom, c.yoy >> : c \in cells}

RenormUnchanged ==
    <<car_model, car_model_image, model_monthly_sales, model_monthly_interest,
      stats, last, nops, input, idx, proc>>

\* normalize_folder on the raw file: new_row = normalize_row(raw_row)
NormalizeOnce ==
    /\ phase = "raw"
    /\ snap' = [snap EXCEPT !.once = normalize_row(input)]
    /\ phase' = "once"
    /\ UNCHANGED RenormUnchanged

\* normalize_folder on the file it wrote: normalize_row of a row it returned
NormalizeTwice ==
    /\ phase = "once"
    /\ ~IsNone(snap.once)
    /\ snap' = [snap EXCEPT !.twice = normalize_row(Val(snap.once))]
    /\ phase' = "twice"
    /\ UNCHANGED RenormUnchanged

InitRenorm ==
    /\ car_model = <<>>
    /\ car_model_image = <<>>
    /\ model_monthly_sales = <<>>
    /\ model_monthly_interest = <<>>
    /\ stats = ZeroSalesStats
    /\ last = None
    /\ nops = 0
    /\ phase = "raw"
    /\ input \in RenormRows
    /\ idx = 0
    /\ snap = [once |-> None, twice |-> None]
    /\ proc = <<>>

NextRenorm ==
    \/ NormalizeOnce
    \/ NormalizeTwice

\* normalize_row applied to a raw row and to its own result
SpecRenorm == InitRenorm /\ [][NextRenorm]_vars

\* C29: normalization is idempotent on its own output. For every raw row that
\* normalize_row accepts, normalize_row of the row it returns is that row, in
\* all six cells.
C29_NormalizeIdempotent ==
    phase = "twice" => snap.twice = snap.once

----------------------------------------------------------------------------
(* run_crawl: the months of one brand, normalize_folder after each *)

MaxCrawlMonths == 2

MaxCrawlRows == 2

\* rows as save_sales_csv writes them: rank, blank, name, sales, share, mom, yoy
Crawled_a_Up == << <<"1">>, <<>>, <<"a">>, <<"5">>, <<"2", ".", "5", "%">>, <<"9", " ", "1", UpGlyph>>, <<>> >>

CrawledRows == {Crawled_a_Up, Raw_b_7_Crawler}

\* what scrape_month_for_brand returns for the months of the crawl
CrawlInputs == SeqsUpTo(SeqsUpTo(CrawledRows, MaxCrawlRows), MaxCrawlMonths)

\* os.listdir(folder_path) without the metadata files: the raw and the
\* normalized sales files the folder holds
listdir(folder) ==
    {<<m, "raw">> : m \in {n \in 1..Len(folder) : ~IsNone(folder[n].raw)}}
        \cup {<<m, "normalized">> : m \in {n \in 1..Len(folder) : ~IsNone(folder[n].normalized)}}

\* the body of the loop of normalize_folder for one file of the listing: the
\* rows of the file go through normalize_row and, unless none is left, are
\* written to the *_normalized.csv of the month
normalize_file(folder, f) ==
    LET rows == IF f[2] = "raw" THEN Val(folder[f[1]].raw) ELSE Val(folder[f[1]].normalized)
        out == normalized_rows(rows)
    IN IF out = <<>> THEN folder
       ELSE [folder EXCEPT ![f[1]].normalized = Some(out)]

CrawlUnchanged ==
    <<car_model, car_model_image, model_monthly_sales, model_monthly_interest,
      stats, last, nops, input>>

\* run_crawl: one month: scrape, save_sales_csv, and the listing of
\* normalize_folder; a month without rows is passed over
CrawlMonth ==
    /\ phase = "crawl"
    /\ idx <= Len(input)
    /\ IF input[idx] = <<>>
       THEN /\ idx' = idx + 1
            /\ UNCHANGED <<phase, proc, snap>>
       ELSE /\ proc' = [proc EXCEPT ![idx].raw = Some(input[idx])]
            /\ snap' = listdir(proc')
            /\ phase' = "normalize"
            /\ UNCHANGED idx
    /\ UNCHANGED CrawlUnchanged

\* normalize_folder: the next file of the listing, in the order of os.listdir
VisitFile(f) ==
    /\ phase = "normalize"
    /\ f \in snap
    /\ proc' = normalize_file(proc, f)
    /\ snap' = snap \ {f}
    /\ UNCHANGED <<phase, idx>>
    /\ UNCHANGED CrawlUnchanged

\* normalize_folder returns: the next month
EndFolder ==
    /\ phase = "normalize"
    /\ snap = {}
    /\ phase' = "crawl"
    /\ idx' = idx + 1
    /\ UNCHANGED <<proc, snap>>
    /\ UNCHANGED CrawlUnchanged

\* run_crawl: the months are done
EndCrawl ==
    /\ phase = "crawl"
    /\ idx > Len(input)
    /\ phase' = "done"
    /\ UNCHANGED <<idx, proc, snap>>
    /\ UNCHANGED CrawlUnchanged

InitCrawl ==
    /\ car_model = <<>>
    /\ car_model_image = <<>>
    /\ model_monthly_sales = <<>>
    /\ model_monthly_interest = <<>>
    /\ stats = ZeroSalesStats
    /\ last = None
    /\ nops = 0
    /\ phase = "crawl"
    /\ input \in CrawlInputs
    /\ idx = 1
    /\ snap = {}
    /\ proc = [m \in 1..Len(input) |-> [raw |-> None, normalized |-> None]]

NextCrawl ==
    \/ CrawlMonth
    \/ \E f \in snap : VisitFile(f)
    \/ EndFolder
    \/ EndCrawl

\* a crawl of one brand over several months
SpecCrawl == InitCrawl /\ [][NextCrawl]_vars

\* C30: after a crawl, every month's normalized file is the normalization of
\* that month's raw file: when run_crawl has ended, the *_normalized.csv of
\* every month with rows holds normalize_row of the rows of the raw file, in
\* whatever order normalize_folder visited the files.
C30_NormalizedIsNormalizedRaw ==
    phase = "done" =>
        \A m \in 1..Len(proc) :
            (~IsNone(proc[m].raw) /\ normalized_rows(Val(proc[m].raw)) # <<>>) =>
                proc[m].normalized = Some(normalized_rows(Val(proc[m].raw)))

----------------------------------------------------------------------------
(* Change cells without a delta *)

\* the token parse_change_field reads the delta from: the only token of the
\* cell, or its second token
diff_part(cell) ==
    IF Len(split(cell)) = 1 THEN split(cell)[1] ELSE split(cell)[2]

\* C31: a delta without digits is null, never zero. parse_change_field
\* returns null for an empty cell, a cell of whitespace only, the cell '-'
\* and any cell whose delta token (the only token, or the second token) holds
\* no digit; it returns 0 only when the digits of the delta token denote zero.
C31_NoDigitsIsNull ==
    phase = "parsed" =>
        /\ input = <<>> => last = None
        /\ strip(input) = <<>> => last = None
        /\ input = <<"-">> => last = None
        /\ (split(input) # <<>> /\ OnlyDigits(diff_part(input)) = <<>>) => last = None
        /\ last = Some(0) =>
              /\ split(input) # <<>>
              /\ OnlyDigits(diff_part(input)) # <<>>
              /\ \A i \in 1..Len(OnlyDigits(diff_part(input))) :
                    OnlyDigits(diff_part(input))[i] = "0"

\* a cell of two tokens, digits in the first and none in the second, has been
\* parsed to null
C31_Witness ==
    /\ phase = "parsed"
    /\ Len(split(input)) = 2
    /\ OnlyDigits(split(input)[1]) # <<>>
    /\ OnlyDigits(split(input)[2]) = <<>>
    /\ last = None

----------------------------------------------------------------------------
(* The aggregate of each key against the rows seen for it *)

\* the month of a row, as the text YYYY-MM and as a count of months
MonthOf(r) == r.year \o <<"-">> \o r.month

MonthNumber(m) == DigitsToInt(SubSeq(m, 1, 4)) * 12 + DigitsToInt(SubSeq(m, 6, 7))

\* the positions of the rows build_model_candidates has read for a key
SeenFor(key) ==
    { i \in 1..(idx[1] - 1) :
        input[i].model_name # <<>> /\ <<input[i].brand_name, input[i].model_name>> = key }

\* the sum of the volumes of the rows at the positions P
RECURSIVE VolumeSum(_)
VolumeSum(P) ==
    IF P = {} THEN 0
    ELSE LET i == CHOOSE j \in P : TRUE
         IN candidate_sales(input[i].sales) + VolumeSum(P \ {i})

\* C32: candidate aggregate invariants. After any non-empty sequence of rows,
\* every candidate has first_month the minimum and last_month the maximum of
\* the months seen for its (brand_name, model_name_kr), first_month <=
\* last_month, both of them among the observed months, months exactly the set
\* of distinct months seen for the key, and total_sales the sum of all
\* volumes seen for the key, both volumes of a key seen twice in one month
\* included; the candidates are exactly the keys seen.
C32_AggregateInvariants ==
    idx[1] > 1 =>
        /\ DOMAIN stats =
              { <<input[i].brand_name, input[i].model_name>> :
                  i \in { j \in 1..(idx[1] - 1) : input[j].model_name # <<>> } }
        /\ \A key \in DOMAIN stats :
              LET ms == stats[key]
                  seen == { MonthOf(input[i]) : i \in SeenFor(key) }
              IN /\ ms.months = seen
                 /\ ~IsNone(ms.first_month) /\ ~IsNone(ms.last_month)
                 /\ Val(ms.first_month) \in ms.months
                 /\ Val(ms.last_month) \in ms.months
                 /\ \A m \in seen :
                       /\ MonthNumber(Val(ms.first_month)) <= MonthNumber(m)
                       /\ MonthNumber(m) <= MonthNumber(Val(ms.last_month))
                 /\ MonthNumber(Val(ms.first_month)) <= MonthNumber(Val(ms.last_month))
                 /\ ~StrLess(Val(ms.last_month), Val(ms.first_month))
                 /\ ms.total_sales = VolumeSum(SeenFor(key))

\* a key has been seen three times, twice in one month and once in an earlier
\* month, and holds the volumes of all three rows
C32_Witness ==
    /\ idx[1] = 4
    /\ \E key \in DOMAIN stats :
          /\ Cardinality(SeenFor(key)) = 3
          /\ Cardinality(stats[key].months) = 2
          /\ stats[key].total_sales = 20
          /\ input[1] = input[2]
          /\ StrLess(MonthOf(input[3]), MonthOf(input[1]))

----------------------------------------------------------------------------
(* The transaction of a loader run.  run_loader of the sales loader and of *)
(* the metadata loader open one engine.begin() around the loop over the    *)
(* brands; process_sales_for_brand and process_meta_for_brand execute on   *)
(* that connection and never commit.                                       *)

MaxRunFiles == 2

MaxRunTxRuns == 1

\* the stored tables the two loaders write; last is the counters the last
\* row of the run found
RunStore ==
    [car_model |-> car_model, car_model_image |-> car_model_image,
     model_monthly_sales |-> model_monthly_sales]

\* the files of a run in the order of run_loader: brand after brand, the
\* files of a brand directory in sorted(glob) order
InRunOrder(files) ==
    \A i, j \in 1..Len(files) :
        (i < j /\ files[i].brand_code = files[j].brand_code) =>
            StrLess(files[i].year \o files[i].month, files[j].year \o files[j].month)

\* normalized sales files of two brands and two months, with a row each
RunSalesFiles == {f \in SalesFiles : f.rows # <<>>}

\* metadata files of two brands and two months
RunMetaFiles ==
    { [brand_code |-> "hyundai", year |-> Y2024, month |-> <<"0", "1">>,
       rows |-> << [brand_code |-> "hyundai", model_name |-> <<"a">>,
                    detail_url |-> Some(Url_Model1),
                    image_url |-> Some(CHOOSE u \in ImageUrls : TRUE)] >>],
      [brand_code |-> "hyundai", year |-> Y2024, month |-> <<"0", "2">>,
       rows |-> << [brand_code |-> "hyundai", model_name |-> <<"a">>,
                    detail_url |-> Some(Url_Model2),
                    image_url |-> Some(CHOOSE u \in ImageUrls : TRUE)] >>],
      [brand_code |-> "kia", year |-> Y2024, month |-> <<"0", "1">>,
       rows |-> << [brand_code |-> "kia", model_name |-> <<"a">>,
                    detail_url |-> Some(Url_Model1), image_url |-> None],
                   [brand_code |-> "kia", model_name |-> <<"c">>,
                    detail_url |-> None, image_url |-> None] >>] }

\* the stored tables after the loop body has finished a file: the loaders
\* commit nothing there, with a commit per file instead
end_of_file_Commit(committed, conn) == conn

\* the stored tables after the loop body has finished a file: the loaders
\* commit nothing there
end_of_file(committed, conn) == committed

RunTxUnchanged == <<model_monthly_interest, nops>>

RunTxStored == <<car_model, car_model_image, model_monthly_sales>>

\* run_loader of a loader: engine.begin(), fresh counters, the files of the run
RunTxStart(loader, files) ==
    /\ phase = "idle"
    /\ snap.runs < MaxRunTxRuns
    /\ InRunOrder(files)
    /\ phase' = loader
    /\ stats' = IF loader = "sales" THEN ZeroSalesStats ELSE ZeroMetaStats
    /\ input' = [f \in 1..Len(files) |->
                    [brand_code |-> files[f].brand_code,
                     month |-> files[f].year \o files[f].month,
                     rows |-> IF loader = "sales"
                              THEN load_normalized_sales_csv(files[f])
                              ELSE files[f].rows]]
    /\ idx' = <<1, 1>>
    /\ proc' = [conn |-> RunStore, files_done |-> 0, writes_done |-> 0]
    /\ snap' = [pre |-> RunStore, runs |-> snap.runs + 1, outcome |-> "running"]
    /\ last' = None
    /\ UNCHANGED RunTxStored
    /\ UNCHANGED RunTxUnchanged

\* process_sales_for_brand: one SalesRow of the current file, on the connection
RunTxSalesRow ==
    /\ phase = "sales"
    /\ idx[1] <= Len(input)
    /\ idx[2] <= Len(input[idx[1]].rows)
    /\ LET file == input[idx[1]]
           sr == file.rows[idx[2]]
       IN \E row \in fetchone(SelectModelByName(proc.conn.car_model,
                         db_brand_name(file.brand_code, sr), sr.model_name)) :
             LET r == process_sales_row(proc.conn.model_monthly_sales, stats, sr,
                                        TotalUnits(file.rows), row) IN
             /\ proc' = [proc EXCEPT
                            !.conn.model_monthly_sales = r.model_monthly_sales]
             /\ stats' = r.stats
    /\ last' = Some(stats)
    /\ idx' = <<idx[1], idx[2] + 1>>
    /\ UNCHANGED <<phase, input, snap>>
    /\ UNCHANGED RunTxStored
    /\ UNCHANGED RunTxUnchanged

\* process_meta_for_brand: one MetaRow of the current file, on the connection
RunTxMetaRow ==
    /\ phase = "meta"
    /\ idx[1] <= Len(input)
    /\ idx[2] <= Len(input[idx[1]].rows)
    /\ LET file == input[idx[1]]
           mr == file.rows[idx[2]]
       IN \E row \in fetchone(MatchedModels(proc.conn.car_model, file.brand_code, mr)),
             conflict \in ConflictRows(proc.conn.car_model, mr) :
             LET r == process_meta_row(proc.conn.car_model, proc.conn.car_model_image,
                                       stats, mr, row, conflict) IN
             /\ proc' = [proc EXCEPT !.conn.car_model = r.car_model,
                                     !.conn.car_model_image = r.car_model_image]
             /\ stats' = r.stats
    /\ last' = Some(stats)
    /\ idx' = <<idx[1], idx[2] + 1>>
    /\ UNCHANGED <<phase, input, snap>>
    /\ UNCHANGED RunTxStored
    /\ UNCHANGED RunTxUnchanged

\* the loop over the files of the brands: the next file
RunTxEndFile ==
    /\ phase \in {"sales", "meta"}
    /\ idx[1] <= Len(input)
    /\ idx[2] > Len(input[idx[1]].rows)
    /\ idx' = <<idx[1] + 1, 1>>
    /\ LET stored == end_of_file(RunStore, proc.conn) IN
          /\ car_model' = stored.car_model
          /\ car_model_image' = stored.car_model_image
          /\ model_monthly_sales' = stored.model_monthly_sales
    /\ proc' = [proc EXCEPT !.files_done = @ + 1,
                            !.writes_done = IF proc.conn # snap.pre THEN idx[1] ELSE @]
    /\ UNCHANGED <<stats, last, phase, input, snap>>
    /\ UNCHANGED RunTxUnchanged

\* run_loader: the with block ends after the last brand, the transaction
\* is committed
RunTxCommit ==
    /\ phase \in {"sales", "meta"}
    /\ idx[1] > Len(input)
    /\ phase' = "idle"
    /\ LET stored == commit(RunStore, proc.conn) IN
          /\ car_model' = stored.car_model
          /\ car_model_image' = stored.car_model_image
          /\ model_monthly_sales' = stored.model_monthly_sales
    /\ snap' = [snap EXCEPT !.outcome = "ok"]
    /\ UNCHANGED <<stats, last, input, idx, proc>>
    /\ UNCHANGED RunTxUnchanged

\* a conn.execute of the run raises: the exception leaves the loops and the
\* with block of run_loader, the transaction is rolled back
RunTxStorageFailure ==
    /\ phase \in {"sales", "meta"}
    /\ phase' = "idle"
    /\ LET stored == rollback(RunStore, proc.conn) IN
          /\ car_model' = stored.car_model
          /\ car_model_image' = stored.car_model_image
          /\ model_monthly_sales' = stored.model_monthly_sales
    /\ snap' = [snap EXCEPT !.outcome = "error"]
    /\ UNCHANGED <<stats, last, input, idx, proc>>
    /\ UNCHANGED RunTxUnchanged

InitRunTx ==
    /\ car_model \in {RegisteredModels, EnrichedModels}
    /\ car_model_image = <<>>
    /\ model_monthly_sales \in SalesTables
    /\ model_monthly_interest = <<>>
    /\ stats = ZeroSalesStats
    /\ last = None
    /\ nops = 0
    /\ phase = "idle"
    /\ input = <<>>
    /\ idx = <<1, 1>>
    /\ snap = [pre |-> RunStore, runs |-> 0, outcome |-> "none"]
    /\ proc = [conn |-> RunStore, files_done |-> 0, writes_done |-> 0]

NextRunTx ==
    \/ \E files \in SeqsUpTo(RunSalesFiles, MaxRunFiles) : RunTxStart("sales", files)
    \/ \E files \in SeqsUpTo(RunMetaFiles, MaxRunFiles) : RunTxStart("meta", files)
    \/ RunTxSalesRow
    \/ RunTxMetaRow
    \/ RunTxEndFile
    \/ RunTxCommit
    \/ RunTxStorageFailure

\* runs of the sales loader and of the metadata loader, any statement of
\* which may fail
SpecRunTx == InitRunTx /\ [][NextRunTx]_vars

\* C33: the transaction boundary of a loader run is the whole run. When a
\* storage failure has ended a run of the sales or of the metadata loader,
\* the stored tables are the tables the run began with, whatever files of
\* other brands and months the run had processed completely; while a run is
\* under way nothing of it is stored.
C33_WholeRunRolledBack ==
    snap.outcome \in {"running", "error"} => RunStore = snap.pre

\* a storage failure has ended a run in its second file, of another brand or
\* month than the first, after the first file had been processed completely
\* and had written to the connection: the stored tables are those from
\* before the run
C33_Witness ==
    /\ phase = "idle" /\ snap.outcome = "error"
    /\ Len(input) = 2 /\ idx[1] = 2
    /\ proc.files_done = 1 /\ proc.writes_done = 1
    /\ <<input[1].brand_code, input[1].month>> # <<input[2].brand_code, input[2].month>>
    /\ proc.conn # snap.pre
    /\ RunStore = snap.pre

----------------------------------------------------------------------------
(* The pipeline over one folder of normalized files: the candidates are    *)
(* aggregated and saved, registered, and the sales loader reads the files. *)

MaxPipeFiles == 2

\* the code points of the characters of the names of this folder; the brand
\* glyphs stand for the first syllables of the two brand names
ord(c) ==
    CASE c = " " -> 32
      [] c = "a" -> 97
      [] c = "b" -> 98
      [] c = "K" -> 44592
      [] c = "H" -> 54788

\* a < b for two names (str.__lt__)
RECURSIVE NameLess(_, _)
NameLess(a, b) ==
    IF b = <<>> THEN FALSE
    ELSE IF a = <<>> THEN TRUE
    ELSE IF Head(a) # Head(b) THEN ord(Head(a)) < ord(Head(b))
    ELSE NameLess(Tail(a), Tail(b))

\* k < o for two keys (brand_name, model_name)
KeyLess(k, o) == NameLess(k[1], o[1]) \/ (k[1] = o[1] /\ NameLess(k[2], o[2]))

\* sorted(stats.keys())
RECURSIVE sorted(_)
sorted(keys) ==
    IF keys = {} THEN <<>>
    ELSE LET k == CHOOSE m \in keys : \A o \in keys \ {m} : KeyLess(m, o)
         IN <<k>> \o sorted(keys \ {k})

\* save_candidates_to_csv, read back by load_candidates: the rows of
\* car_model_candidates.csv
save_candidates_to_csv(st) ==
    [i \in 1..Len(sorted(DOMAIN st)) |-> to_row(st[sorted(DOMAIN st)[i]])]

\* iter_normalized_files: the brand name of a brand directory
iter_brand_name(subdir) == IF subdir = "hyundai" THEN Hyundai ELSE Kia

\* the rows of the normalized files of the folder: names with blanks around
\* them, volumes with a comma, without digits and empty
PipeRowLists ==
    { << SalesCell(<<" ", "a">>, <<"5">>, <<>>),
         SalesCell(<<"b">>, <<"1", ",", "0">>, <<>>) >>,
      << SalesCell(<<"a", " ">>, <<"x">>, <<>>) >>,
      << SalesCell(<<"a">>, <<>>, <<>>),
         SalesCell(<<"b", " ">>, <<"7">>, <<"2", ".", "5", "%">>) >>,
      <<>> }

PipeFiles ==
    [brand_code : BrandCodes, year : {Y2024},
     month : {<<"0", "1">>, <<"0", "2">>}, rows : PipeRowLists]

\* the files of a folder in the order of iter_normalized_files, which is the
\* order of the sales loader with its default brands: hyundai before kia,
\* each directory in sorted order
PipeFolders ==
    { fs \in SeqsUpTo(PipeFiles, MaxPipeFiles) :
        \A i, j \in 1..Len(fs) :
            i < j => \/ fs[i].brand_code = "hyundai" /\ fs[j].brand_code = "kia"
                     \/ /\ fs[i].brand_code = fs[j].brand_code
                        /\ StrLess(fs[i].month, fs[j].month) }

PipeUnchanged == <<car_model_image, model_monthly_interest, last, nops, input>>

\* build_model_candidates: one row of the current file
PipeAggregateRow ==
    /\ phase = "aggregate"
    /\ idx[1] <= Len(input)
    /\ idx[2] <= Len(input[idx[1]].rows)
    /\ LET file == input[idx[1]]
           r == file.rows[idx[2]]
       IN stats' = build_row(stats, AggRow(iter_brand_name(file.brand_code),
                                           file.year, file.month, r.model_name, r.sales))
    /\ idx' = <<idx[1], idx[2] + 1>>
    /\ UNCHANGED <<car_model, model_monthly_sales, phase, snap, proc>>
    /\ UNCHANGED PipeUnchanged

\* the next file of a stage that reads the folder
PipeNextFile ==
    /\ phase \in {"aggregate", "sales"}
    /\ idx[1] <= Len(input)
    /\ idx[2] > Len(IF phase = "sales" THEN proc.sales_rows ELSE input[idx[1]].rows)
    /\ idx' = <<idx[1] + 1, 1>>
    /\ proc' = [proc EXCEPT !.sales_rows =
                   IF phase = "sales" /\ idx[1] < Len(input)
                   THEN load_normalized_sales_csv(input[idx[1] + 1]) ELSE <<>>]
    /\ UNCHANGED <<car_model, model_monthly_sales, stats, phase, snap>>
    /\ UNCHANGED PipeUnchanged

\* main of extract_car_model_candidates.py ends: the candidate file is
\* written; upsert_car_model opens it
PipeSave ==
    /\ phase = "aggregate"
    /\ idx[1] > Len(input)
    /\ phase' = "register"
    /\ proc' = [proc EXCEPT !.candidates = save_candidates_to_csv(stats)]
    /\ idx' = <<1, 1>>
    /\ UNCHANGED <<car_model, model_monthly_sales, stats, snap>>
    /\ UNCHANGED PipeUnchanged

\* upsert_car_model: one candidate row
PipeRegisterRow ==
    /\ phase = "register"
    /\ idx[1] <= Len(proc.candidates)
    /\ \E existing \in ExistingRows(car_model, proc.candidates[idx[1]]) :
          car_model' = upsert_candidate(car_model, proc.candidates[idx[1]], existing)
    /\ idx' = <<idx[1] + 1, 1>>
    /\ UNCHANGED <<model_monthly_sales, stats, phase, snap, proc>>
    /\ UNCHANGED PipeUnchanged

\* upsert_car_model ends; run_loader of the sales loader begins with fresh
\* counters and reads the first file
PipeStartSales ==
    /\ phase = "register"
    /\ idx[1] > Len(proc.candidates)
    /\ phase' = "sales"
    /\ stats' = ZeroSalesStats
    /\ idx' = <<1, 1>>
    /\ proc' = [proc EXCEPT !.sales_rows =
                   IF input = <<>> THEN <<>> ELSE load_normalized_sales_csv(input[1])]
    /\ snap' = [snap EXCEPT !.registered = car_model]
    /\ UNCHANGED <<car_model, model_monthly_sales>>
    /\ UNCHANGED PipeUnchanged

\* process_sales_for_brand: one SalesRow of the current file
PipeSalesRow ==
    /\ phase = "sales"
    /\ idx[1] <= Len(input)
    /\ idx[2] <= Len(proc.sales_rows)
    /\ LET sr == proc.sales_rows[idx[2]] IN
       \E row \in fetchone(SelectModelByName(car_model,
                      db_brand_name(input[idx[1]].brand_code, sr), sr.model_name)) :
          LET r == process_sales_row(model_monthly_sales, stats, sr,
                                     TotalUnits(proc.sales_rows), row) IN
          /\ model_monthly_sales' = r.model_monthly_sales
          /\ stats' = r.stats
    /\ idx' = <<idx[1], idx[2] + 1>>
    /\ UNCHANGED <<car_model, phase, snap, proc>>
    /\ UNCHANGED PipeUnchanged

\* run_loader of the sales loader ends
PipeEnd ==
    /\ phase = "sales"
    /\ idx[1] > Len(input)
    /\ phase' = "done"
    /\ UNCHANGED <<car_model, model_monthly_sales, stats, idx, snap, proc>>
    /\ UNCHANGED PipeUnchanged

InitPipe ==
    /\ car_model \in {<<>>, RegisteredModels}
    /\ car_model_image = <<>>
    /\ model_monthly_sales = <<>>
    /\ model_monthly_interest = <<>>
    /\ stats = <<>>
    /\ last = NoLast
    /\ nops = 0
    /\ phase = "aggregate"
    /\ input \in PipeFolders
    /\ idx = <<1, 1>>
    /\ snap = [pre |-> car_model, registered |-> car_model]
    /\ proc = [candidates |-> <<>>, sales_rows |-> <<>>]

NextPipe ==
    \/ PipeAggregateRow
    \/ PipeNextFile
    \/ PipeSave
    \/ PipeRegisterRow
    \/ PipeStartSales
    \/ PipeSalesRow
    \/ PipeEnd

\* the aggregator, the registration and the sales loader over one folder
SpecPipe == InitPipe /\ [][NextPipe]_vars

\* the records of the folder with a parsable volume: file, row
ParsableRecords ==
    { p \in UNION { {<<f, i>> : i \in 1..Len(input[f].rows)} : f \in 1..Len(input) } :
        \E c \in 1..Len(input[p[1]].rows[p[2]].sales) :
            input[p[1]].rows[p[2]].sales[c] \in Digits }

\* C34: pipeline completeness. When the candidates have been aggregated from
\* a set of normalized files whose model names are non-empty after trimming,
\* then registered, and the sales loader has then run over the same files,
\* no record was skipped as unresolved (no_model_match is 0) and every
\* record with a parsable volume has a stored fact for its (model_id, month).
C34_PipelineComplete ==
    phase = "done" =>
        /\ stats.no_model_match = 0
        /\ stats.total_rows = Cardinality(ParsableRecords)
        /\ \A p \in ParsableRecords :
              \E i \in 1..Len(car_model) :
                 /\ car_model[i].brand_name = iter_brand_name(input[p[1]].brand_code)
                 /\ car_model[i].model_name_kr = strip(input[p[1]].rows[p[2]].model_name)
                 /\ <<car_model[i].model_id,
                      input[p[1]].year \o <<"-">> \o input[p[1]].month \o <<"-", "0", "1">>>>
                       \in DOMAIN model_monthly_sales

\* the pipeline has run over two files on an empty registry: a model whose
\* name the file holds with a blank before it was registered by the pipeline
\* and has its fact
C34_Witness ==
    /\ phase = "done"
    /\ snap.pre = <<>>
    /\ Len(input) = 2
    /\ \E p \in ParsableRecords :
          /\ input[p[1]].rows[p[2]].model_name = <<" ", "a">>
          /\ \E i \in 1..Len(car_model) :
                /\ car_model[i].model_name_kr = <<"a">>
                /\ car_model[i].brand_name = iter_brand_name(input[p[1]].brand_code)
                /\ <<car_model[i].model_id, D_2024_01_01>> \in DOMAIN model_monthly_sales
    /\ stats.insert_or_update >= 2

----------------------------------------------------------------------------
(* Sales files and interest files on one registry.  The interest files     *)
(* carry the model_id of each row themselves.                              *)

MaxRefOps == 3

\* rows of naver_trend_<run_id>.csv: of the two registered models and of a
\* model_id no car_model row has
RefNaverRows ==
    [model_id : {<<"1">>, <<"2">>, <<"9">>}, date : {D_2024_01_01, D_2024_02_01},
     ratio : {<<"1">>}]

\* rows of google_trend_<run_id>_normalized.csv, likewise
RefGoogleRows ==
    [model_id : {<<"1">>, <<"9">>}, month : {D_2024_01_01, D_2024_02_01},
     google_trend_index : {<<"5">>}]

RefsUnchanged == <<car_model, car_model_image, input, idx, snap, proc>>

\* process_sales_for_brand: the one record of a file
RefsSales(file) ==
    /\ nops < MaxRefOps
    /\ LET sales_rows == load_normalized_sales_csv(file)
           sr == sales_rows[1]
       IN \E row \in fetchone(SelectModelByName(car_model,
                         db_brand_name(file.brand_code, sr), sr.model_name)) :
             LET r == process_sales_row(model_monthly_sales, ZeroSalesStats, sr,
                                        TotalUnits(sales_rows), row) IN
             /\ model_monthly_sales' = r.model_monthly_sales
             /\ stats' = r.stats
    /\ nops' = nops + 1
    /\ phase' = "sales"
    /\ last' = None
    /\ UNCHANGED model_monthly_interest
    /\ UNCHANGED RefsUnchanged

\* load_naver_interest: a file of one row
RefsNaver(raw) ==
    /\ nops < MaxRefOps
    /\ model_monthly_interest'
          = ApplyNaver(model_monthly_interest, load_raw_csv(<<raw>>).points)
    /\ nops' = nops + 1
    /\ phase' = "naver"
    /\ last' = int(raw.model_id)
    /\ UNCHANGED <<model_monthly_sales, stats>>
    /\ UNCHANGED RefsUnchanged

\* load_google_trend: a file of one row
RefsGoogle(raw) ==
    /\ nops < MaxRefOps
    /\ model_monthly_interest'
          = ApplyGoogle(model_monthly_interest, ReadGoogleRows(<<raw>>))
    /\ nops' = nops + 1
    /\ phase' = "google"
    /\ last' = int(raw.model_id)
    /\ UNCHANGED <<model_monthly_sales, stats>>
    /\ UNCHANGED RefsUnchanged

InitRefs ==
    /\ car_model = RegisteredModels
    /\ car_model_image = <<>>
    /\ model_monthly_sales = <<>>
    /\ model_monthly_interest = <<>>
    /\ stats = ZeroSalesStats
    /\ last = None
    /\ nops = 0
    /\ phase = "idle"
    /\ input = <<>>
    /\ idx = 0
    /\ snap = <<>>
    /\ proc = <<>>

NextRefs ==
    \/ \E file \in LifeSalesFiles : RefsSales(file)
    \/ \E raw \in RefNaverRows : RefsNaver(raw)
    \/ \E raw \in RefGoogleRows : RefsGoogle(raw)

\* files of the sales loader and of the two interest loaders in any order
SpecRefs == InitRefs /\ [][NextRefs]_vars

\* the model_id values of the registry
ModelIds == {car_model[i].model_id : i \in 1..Len(car_model)}

\* C35: referential integrity of facts. In every reachable state every row
\* of model_monthly_sales and every row of model_monthly_interest has a
\* model_id that is the model_id of a car_model row; an interest row whose
\* model_id is not registered is not written.
C35_FactsReferToModels ==
    /\ \A k \in DOMAIN model_monthly_sales : k[1] \in ModelIds
    /\ \A k \in DOMAIN model_monthly_interest : k[1] \in ModelIds
    /\ (phase \in {"naver", "google"} /\ Val(last) \notin ModelIds) =>
          \A k \in DOMAIN model_monthly_interest : k[1] # Val(last)

----------------------------------------------------------------------------
(* The counters of a run *)

\* C36: counter conservation. At the end of every sales run total_rows =
\* no_model_match + insert_or_update; at the end of every metadata run
\* total_rows = no_model_match + car_model_updated, danawa_id_conflict <=
\* car_model_updated and image_inserted + image_skipped_duplicate <=
\* car_model_updated; every processed row adds one to total_rows and one to
\* exactly one of the skip counter and the update counter.
C36_CounterConservation ==
    /\ (phase = "idle" /\ snap.outcome = "ok") =>
          IF "insert_or_update" \in DOMAIN stats
          THEN stats.total_rows = stats.no_model_match + stats.insert_or_update
          ELSE /\ stats.total_rows = stats.no_model_match + stats.car_model_updated
               /\ stats.danawa_id_conflict <= stats.car_model_updated
               /\ stats.image_inserted + stats.image_skipped_duplicate
                     <= stats.car_model_updated
    /\ (phase = "sales" /\ ~IsNone(last)) =>
          /\ stats.total_rows = Val(last).total_rows + 1
          /\ <<stats.no_model_match - Val(last).no_model_match,
               stats.insert_or_update - Val(last).insert_or_update>> \in {<<1, 0>>, <<0, 1>>}
    /\ (phase = "meta" /\ ~IsNone(last)) =>
          /\ stats.total_rows = Val(last).total_rows + 1
          /\ <<stats.no_model_match - Val(last).no_model_match,
               stats.car_model_updated - Val(last).car_model_updated>> \in {<<1, 0>>, <<0, 1>>}

\* a metadata run of three rows has ended: one row matched no model, one
\* collided on its id, one inserted an image
C36_Witness ==
    /\ phase = "idle" /\ snap.outcome = "ok"
    /\ "car_model_updated" \in DOMAIN stats
    /\ stats.total_rows = 3
    /\ stats.no_model_match = 1
    /\ stats.danawa_id_conflict = 1
    /\ stats.image_inserted = 1
    /\ stats.car_model_updated = 2

----------------------------------------------------------------------------
(* The images of serialized metadata runs *)

\* C37: image registration is deduplicated and idempotent. After any
\* sequence of serialized metadata runs car_model_image holds at most one
\* row per (model_id, image_url); a metadata row inserts an image only when
\* its model was matched and the pair was not stored, and then exactly that
\* pair; a run over the file of the run before it inserts no image row.
C37_ImagesDeduplicated ==
    /\ \A i, j \in 1..Len(car_model_image) :
          (/\ car_model_image[i].model_id = car_model_image[j].model_id
           /\ car_model_image[i].image_url = car_model_image[j].image_url) => i = j
    /\ ~IsNone(snap.row) =>
          LET mr == Val(snap.row)
              matched == MatchedModels(snap.car_model, mr.brand_code, mr)
          IN \/ car_model_image = snap.car_model_image
             \/ /\ matched # {}
                /\ ~IsNone(mr.image_url)
                /\ \E m \in matched :
                      /\ \A k \in 1..Len(snap.car_model_image) :
                            ~(/\ snap.car_model_image[k].model_id = snap.car_model[m].model_id
                              /\ snap.car_model_image[k].image_url = Val(mr.image_url))
                      /\ Len(car_model_image) = Len(snap.car_model_image) + 1
                      /\ SubSeq(car_model_image, 1, Len(snap.car_model_image))
                            = snap.car_model_image
                      /\ car_model_image[Len(car_model_image)].model_id
                            = snap.car_model[m].model_id
                      /\ car_model_image[Len(car_model_image)].image_url
                            = Val(mr.image_url)
    /\ (snap.runs >= 2 /\ ~IsNone(snap.row)) =>
          /\ car_model_image = snap.car_model_image
          /\ stats.image_inserted = 0

\* the second run over a file has ended: the image its first run inserted is
\* stored once and the row carrying it was counted as a duplicate
C37_Witness ==
    /\ phase = "idle" /\ snap.runs = 2
    /\ Len(car_model_image) = 1
    /\ stats.image_skipped_duplicate >= 1
    /\ stats.image_inserted = 0
    /\ stats.no_model_match = 0

----------------------------------------------------------------------------
(* run_crawl and the wait of scrape_month_for_brand for the table.  The    *)
(* page of a (month, brand) shows its rows from some poll on, or never, or *)
(* the browser raises when the page is opened.                             *)

MaxTableTimeout == 3

MaxTargets == 2

\* what the browser does for one (month, brand): ready_at is the poll from
\* which find_elements returns rows (0: never), fault is driver.get raising
Pages ==
    [ready_at : 0..(MaxTableTimeout + 1), fault : {FALSE}]
        \cup {[ready_at |-> 0, fault |-> TRUE]}

\* range(table_timeout) with one poll more
poll_limit_OneMore(table_timeout) == table_timeout + 1

\* range(table_timeout): the number of polls of the loop
poll_limit(table_timeout) == table_timeout

\* driver.find_elements at poll i (from 1) on a page
find_elements(page, i) ==
    IF page.ready_at # 0 /\ i >= page.ready_at THEN <<"tr">> ELSE <<>>

\* the three files run_crawl writes for a target
TargetFiles(t) == {<<t, "sales">>, <<t, "meta">>, <<t, "normalized">>}

ScrapeUnchanged ==
    <<car_model, car_model_image, model_monthly_sales, model_monthly_interest,
      stats, input>>

\* get_driver(headless): the browser starts, or get_driver raises
GetDriver ==
    /\ phase = "start"
    /\ \/ /\ proc' = [driver |-> "open"]
          /\ phase' = "crawl"
       \/ /\ proc' = [driver |-> "none"]
          /\ phase' = "failed"
    /\ UNCHANGED <<idx, nops, last, snap>>
    /\ UNCHANGED ScrapeUnchanged

\* scrape_month_for_brand up to its loop: driver.get, the brand tab, the scroll
ScrapeOpen ==
    /\ phase = "crawl"
    /\ idx <= Len(input.targets)
    /\ IF input.targets[idx].fault
       THEN /\ phase' = "raised"
            /\ UNCHANGED nops
       ELSE /\ phase' = "poll"
            /\ nops' = 0
    /\ last' = <<>>
    /\ UNCHANGED <<idx, snap, proc>>
    /\ UNCHANGED ScrapeUnchanged

\* one pass of the loop: find_elements, break on rows, else sleep(1)
Poll ==
    /\ phase = "poll"
    /\ nops < poll_limit(input.table_timeout)
    /\ last' = find_elements(input.targets[idx], nops + 1)
    /\ nops' = nops + 1
    /\ snap' = [snap EXCEPT !.polls[idx] = nops + 1]
    /\ phase' = IF last' # <<>> THEN "scraped" ELSE "poll"
    /\ UNCHANGED <<idx, proc>>
    /\ UNCHANGED ScrapeUnchanged

\* the else of the loop: return []
PollTimeout ==
    /\ phase = "poll"
    /\ nops >= poll_limit(input.table_timeout)
    /\ last' = <<>>
    /\ snap' = [snap EXCEPT !.timed_out = @ \cup {idx}]
    /\ phase' = "scraped"
    /\ UNCHANGED <<idx, nops, proc>>
    /\ UNCHANGED ScrapeUnchanged

\* run_crawl: if not rows: continue
SkipTarget ==
    /\ phase = "scraped"
    /\ last = <<>>
    /\ idx' = idx + 1
    /\ phase' = "crawl"
    /\ UNCHANGED <<nops, last, snap, proc>>
    /\ UNCHANGED ScrapeUnchanged

\* run_crawl: save_sales_csv, save_meta_csv, normalize_folder
SaveTarget ==
    /\ phase = "scraped"
    /\ last # <<>>
    /\ snap' = [snap EXCEPT !.files = @ \cup TargetFiles(idx)]
    /\ idx' = idx + 1
    /\ phase' = "crawl"
    /\ UNCHANGED <<nops, last, proc>>
    /\ UNCHANGED ScrapeUnchanged

\* finally: driver.quit(), after the loops or with the exception under way
Finally ==
    /\ \/ phase = "crawl" /\ idx > Len(input.targets)
       \/ phase = "raised"
    /\ proc' = [driver |-> "quit"]
    /\ phase' = IF phase = "raised" THEN "failed" ELSE "done"
    /\ UNCHANGED <<idx, nops, last, snap>>
    /\ UNCHANGED ScrapeUnchanged

InitScrape ==
    /\ car_model = <<>>
    /\ car_model_image = <<>>
    /\ model_monthly_sales = <<>>
    /\ model_monthly_interest = <<>>
    /\ stats = ZeroSalesStats
    /\ last = <<>>
    /\ nops = 0
    /\ phase = "start"
    /\ input \in [table_timeout : 0..MaxTableTimeout,
                  targets : SeqsUpTo(Pages, MaxTargets)]
    /\ idx = 1
    /\ snap = [files |-> {}, timed_out |-> {},
               polls |-> [t \in 1..Len(input.targets) |-> 0]]
    /\ proc = [driver |-> "none"]

NextScrape ==
    \/ GetDriver
    \/ ScrapeOpen
    \/ Poll
    \/ PollTimeout
    \/ SkipTarget
    \/ SaveTarget
    \/ Finally

\* a crawl: the program takes its next step as long as it has one
SpecScrape == InitScrape /\ [][NextScrape]_vars /\ WF_vars(NextScrape)

\* the targets whose rows show within table_timeout polls
ShownInTime ==
    { t \in 1..Len(input.targets) :
        /\ ~input.targets[t].fault
        /\ input.targets[t].ready_at \in 1..input.table_timeout }

CrawlEnded == phase \in {"done", "failed"}

\* what holds in every state of a crawl
BoundedWait ==
    /\ \A t \in 1..Len(input.targets) : snap.polls[t] <= input.table_timeout
    /\ \A t \in snap.timed_out :
          /\ snap.polls[t] = input.table_timeout
          /\ t \notin ShownInTime
          /\ (t < idx \/ phase = "scraped") => TargetFiles(t) \cap snap.files = {}
          /\ (t = idx /\ phase = "scraped") => last = <<>>
    /\ snap.files \subseteq UNION {TargetFiles(t) : t \in ShownInTime}
    /\ phase = "done" =>
          /\ idx = Len(input.targets) + 1
          /\ snap.files = UNION {TargetFiles(t) : t \in ShownInTime}
          /\ snap.timed_out = (1..Len(input.targets)) \ ShownInTime
    /\ CrawlEnded => proc.driver # "open"
    /\ phase = "done" => proc.driver = "quit"
    /\ (phase = "failed" /\ proc.driver = "none") =>
          /\ idx = 1 /\ snap.files = {}
          /\ \A t \in 1..Len(input.targets) : snap.polls[t] = 0

====
